---- MODULE Spec2Model ----
(***************************************************************************)
(* Storage volume lifecycle and migration engine of the storage backend    *)
(* (internal/server/storage/backend.go).                                    *)
(*                                                                         *)
(* Every Backend operation is a small sequential program run by a thread:  *)
(* th[t].pc is its position, th[t].rev its revert.Reverter (the list of    *)
(* compensating actions), th[t].defers its stack of deferred calls.  One   *)
(* step of a thread is one access to shared state: the metadata store db,  *)
(* the Driver's physical volumes disk, the advisory locks, the instance's  *)
(* freezer.                                                                *)
(***************************************************************************)
EXTENDS Integers, Sequences, FiniteSets, TLC

\* Snapshot names are 1..MaxSnaps.
MaxSnaps == 2

Threads == {"t1", "t2"}
\* The sender and the receiver task of a cross-pool transfer.
Tasks == {"snd", "rcv"}
\* The volumes by their storage names: c1, c2, v1, v2 of the default project,
\* and the instance c1 and the custom volume v1 of project p2.
Parents == {"c1", "c2", "v1", "v2", "p2_c1", "p2_v1"}
\* The fingerprint of the one image.
Images == {"img", "img2"}
SnapIds == 1..MaxSnaps
\* A volume name is <<parent, 0>>, a snapshot volume name <<parent, snapshot>>.
RowNames == (Parents \cup Images) \X (0..MaxSnaps)

VARIABLES
    db,       \* metadata store of the pool: row name -> [own, cfg]
    disk,     \* the Driver's physical volumes and snapshots of the pool
    locks,    \* advisory locks: key -> holder ("free" when not held)
    running,  \* the source instance is running
    frozen,   \* the source instance is frozen
    freezeDrv,\* the Driver's Info().RunningCopyFreeze
    th,       \* the threads, each running one Backend operation
    ctx,      \* the cancellable context of a cross-pool transfer
    pipe,     \* the in-memory pipe pair: the frame in flight in each direction
    gerr,     \* the error group's first error: the task that returned it
    pool,     \* the pool's global status and its status on this server
    zfs,      \* the datasets of a ZFS pool: filesystems, their origins, snapshots
    zc        \* the running zfsPoolVolumeCleanup call: position, path, error

vars == <<db, disk, locks, running, frozen, freezeDrv, th, ctx, pipe, gerr, pool, zfs, zc>>

----------------------------------------------------------------------------
\* Names.

GetSnapshotVolumeName(parent, snap) == <<parent, snap>>

VolName(parent) == <<parent, 0>>

GetParentAndSnapshotName(n) == [parent |-> n[1], snap |-> n[2], isSnap |-> n[2] # 0]

LockKeys ==
    ({"CreateInstanceSnapshot", "CreateCustomVolumeSnapshot"} \X Parents)
        \cup ({"EnsureImage", "DeleteImage"} \X Images)

\* src.Name() and volName: the name of the instance or the custom volume in
\* its project, not its storage name project.Instance(projectName, name).
NameInProject(n) == CASE n = "p2_c1" -> "c1" [] n = "p2_v1" -> "v1" [] OTHER -> n

\* One key for all the calls of an operation.
OperationLockNamePerOperation(operationName, volName) == <<operationName, "c1">>

\* One key for all the operations on a volume.
OperationLockNamePerVolume(operationName, volName) == <<"EnsureImage", volName>>

\* drivers.OperationLockName(operationName, poolName, volType, contentType, volName):
\* pool, volume type and content type are fixed here, the project is no part of it.
OperationLockName(operationName, volName) == <<operationName, volName>>

----------------------------------------------------------------------------
\* The metadata store.  own is the thread whose VolumeDBCreate inserted the
\* row ("init" for a row that was there before, "none" for no row).

NoRow == [own |-> "none", cfg |-> 0]

Found(d, n) == d[n].own # "none"

DBInsert(d, n, who, cfg) == [d EXCEPT ![n] = [own |-> who, cfg |-> cfg]]

DBRemove(d, n) == [d EXCEPT ![n] = NoRow]

DBSetConfig(d, n, cfg) == IF Found(d, n) THEN [d EXCEPT ![n].cfg = cfg] ELSE d

\* tx.RenameStoragePoolVolume: fails when the row is missing or the new name is taken.
CanRename(d, old, new) == Found(d, old) /\ ~Found(d, new)

DBRename(d, old, new) ==
    IF CanRename(d, old, new) THEN [d EXCEPT ![new] = d[old], ![old] = NoRow] ELSE d

VolumeDBSnapshotsGet(d, parent) == {s \in SnapIds : Found(d, <<parent, s>>)}

RECURSIVE SeqOf(_)
\* The snapshots of a set in creation order (the order of their names).
SeqOf(S) ==
    IF S = {} THEN <<>>
    ELSE LET m == CHOOSE x \in S : \A y \in S : x <= y IN <<m>> \o SeqOf(S \ {m})

----------------------------------------------------------------------------
\* Threads.

Idle ==
    [op |-> "idle", pc |-> "idle", inst |-> "c1", src |-> "c1", snap |-> 0,
     snaps |-> FALSE, allowInc |-> FALSE, todo |-> <<>>, rev |-> <<>>,
     defers |-> <<>>, stk |-> <<>>, cret |-> "ok", res |-> "none",
     physFail |-> FALSE, retried |-> FALSE, dsnap |-> <<"c1", 0>>, c |-> 0,
     sl |-> {}, cross |-> FALSE, imgDBVol |-> FALSE, nCreate |-> 0, refresh |-> FALSE,
     errs |-> {}, had |-> FALSE, fault |-> FALSE, undone |-> FALSE, second |-> FALSE,
     made |-> {}, offer |-> <<>>, ours |-> {}, restores |-> <<>>, quota |-> "none",
     cancelled |-> FALSE, cur |-> <<"c1", 0>>, vols |-> {}, unknown |-> {},
     instDB |-> {}, valid |-> {}, backup |-> <<>>, existing |-> <<>>,
     deleteMissing |-> FALSE, rest |-> {}, events |-> 0,
     before |-> <<{}, {}>>, froze |-> FALSE,
     nargs |-> 0, hdr |-> <<0, 0>>, idx |-> 0, oob |-> FALSE]

----------------------------------------------------------------------------
\* The requests a thread may run.
Request(op, inst, src, snap, snaps, allowInc) ==
    [Idle EXCEPT !.op = op, !.pc = IF op = "DeleteInstance" THEN "di_snaps" ELSE op,
                 !.inst = inst, !.src = src, !.snap = snap, !.snaps = snaps,
                 !.allowInc = allowInc, !.dsnap = GetSnapshotVolumeName(inst, snap)]

Undo(k, n, m, c) == [k |-> k, n |-> n, m |-> m, c |-> c]

Defer(k, key) == [k |-> k, key |-> key]

\* revert.New() followed by defer reverter.Fail().
WithReverter(r) == [r EXCEPT !.rev = <<>>, !.defers = Append(@, Defer("revert", <<"", "">>))]

\* A reverter.Add that registers nothing.
RevAddNothing(r, u) == r

\* reverter.Add(f)
RevAdd(r, u) == [r EXCEPT !.rev = Append(@, u)]

\* reverter.Success(): the compensating actions are dropped.
Success(r) == [r EXCEPT !.rev = <<>>]

\* return result: to the caller when the operation was called by another one,
\* else to the deferred calls of the operation.
Return(r, result) ==
    IF r.stk = <<>>
    THEN [r EXCEPT !.res = result, !.pc = "ret"]
    ELSE [r EXCEPT !.cret = result, !.pc = Head(r.stk), !.stk = Tail(r.stk)]

Call(r, entry, back) == [r EXCEPT !.pc = entry, !.stk = <<back>> \o @]

Set(t, r) == th' = [th EXCEPT ![t] = r]

Last(s) == s[Len(s)]

Front(s) == SubSeq(s, 1, Len(s) - 1)

Env == UNCHANGED <<running, freezeDrv, pool, zfs, zc, ctx, pipe, gerr>>

OnlyTh(t, r) == Set(t, r) /\ UNCHANGED <<db, disk, locks, frozen>> /\ Env

DBStep(t, r, d) == Set(t, r) /\ db' = d /\ UNCHANGED <<disk, locks, frozen>> /\ Env

DiskStep(t, r, k) == Set(t, r) /\ disk' = k /\ UNCHANGED <<db, locks, frozen>> /\ Env

At(t, pc) == th[t].pc = pc

\* The operation of t has returned to its caller.
Returned(t) == At(t, "done")

\* isStatusReady: the pool is not pending and not unavailable on this server.
isStatusReady(p) == p.status # "Pending" /\ p.local # "Unavailable"

\* A pool that is created, mounted under its mount path and available.
ReadyPool == [status |-> "Created", local |-> "Created", path |-> TRUE, mounted |-> TRUE]

\* The process-wide set unavailablePools: LocalStatus is Unavailable for the
\* pools in it, and the state of the pool on this server for the others.
IsAvailable(p) == p.local # "Unavailable"

\* unavailablePools[b.Name()] = struct{}{}
MarkUnavailable(p) == [p EXCEPT !.local = "Unavailable"]

\* delete(unavailablePools, b.Name())
MarkAvailable(p) == [p EXCEPT !.local = "Created"]

PoolStep(t, r, p) ==
    /\ Set(t, r)
    /\ pool' = p
    /\ UNCHANGED <<db, disk, locks, frozen, running, freezeDrv, zfs, zc, ctx, pipe, gerr>>

\* VolumeDBCreate of row n for thread t, with its reverter.Add(VolumeDBDelete):
\* an existing row is a conflict and the operation returns the error.
CreateRow(t, r, n, cfg, next) ==
    IF Found(db, n)
    THEN OnlyTh(t, Return(r, "err"))
    ELSE DBStep(t, [RevAdd(r, Undo("dbdel", n, n, 0)) EXCEPT !.pc = next, !.made = @ \cup {n}],
                DBInsert(db, n, t, cfg))

\* The volume and the snapshots sl of parent, as the Driver names them.
VolAndSnaps(parent, sl) == {VolName(parent)} \cup {GetSnapshotVolumeName(parent, s) : s \in sl}

----------------------------------------------------------------------------
\* The operation has returned: its local variables are gone, its request and
\* its result stay, and so does the last snapshot a refresh has deleted.
Finish(r) ==
    [r EXCEPT !.pc = "done", !.todo = <<>>, !.c = 0, !.cret = "ok",
              !.dsnap = IF r.op = "RefreshCustomVolume" THEN @ ELSE Idle.dsnap,
              !.imgDBVol = FALSE]

\* A task that does not cancel the context when it returns an error.
NoCancelOnError(c, failed) == c

\* The return of a task of a transfer: an error cancels the context, in the
\* error group's Go as in the goroutines that call cancel() themselves.
CancelOnError(c, failed) == IF failed THEN "cancelled" ELSE c

\* The error group keeps the first error its tasks return.
GroupError(g, task, failed) == IF failed /\ g = "none" THEN task ELSE g

\* The deferred calls of an operation, run at its return in LIFO order.
RetStep(t) ==
    /\ At(t, "ret")
    /\ LET r == th[t] IN
       IF r.defers = <<>>
       THEN /\ Set(t, Finish(r))
            /\ ctx' = (IF t \in Tasks THEN CancelOnError(ctx, r.res = "err") ELSE ctx)
            /\ gerr' = (IF t \in Tasks THEN GroupError(gerr, t, r.res = "err") ELSE gerr)
            /\ UNCHANGED <<db, disk, locks, frozen, running, freezeDrv, pool, zfs, zc, pipe>>
       ELSE LET d == Last(r.defers)
                r1 == [r EXCEPT !.defers = Front(@)]
            IN CASE d.k = "unlock" ->
                      /\ locks' = [locks EXCEPT ![d.key] = "free"]
                      /\ Set(t, r1)
                      /\ UNCHANGED <<db, disk, frozen>> /\ Env
                 [] d.k = "cancel" ->
                      /\ ctx' = "cancelled"
                      /\ Set(t, r1)
                      /\ UNCHANGED <<db, disk, locks, frozen, running, freezeDrv, pool, zfs, zc, pipe, gerr>>
                 [] d.k = "unfreeze" ->
                      /\ frozen' = FALSE
                      /\ Set(t, r1)
                      /\ UNCHANGED <<db, disk, locks>> /\ Env
                 [] OTHER -> OnlyTh(t, [r1 EXCEPT !.pc = "revert"])

\* reverter.Fail(): the compensating actions, last added first.
RevertStep(t) ==
    /\ At(t, "revert")
    /\ LET r == th[t] IN
       IF r.rev = <<>>
       THEN OnlyTh(t, [r EXCEPT !.pc = "ret"])
       ELSE LET u == Last(r.rev)
                r1 == [r EXCEPT !.rev = Front(@), !.undone = TRUE]
            IN CASE u.k = "dbdel" -> DBStep(t, r1, DBRemove(db, u.n))
                 [] u.k = "dbcfg" -> DBStep(t, r1, DBSetConfig(db, u.n, u.c))
                 [] u.k = "dbren" -> DBStep(t, r1, DBRename(db, u.n, u.m))
                 [] u.k = "drvren" ->
                      DiskStep(t, r1, (disk \ VolAndSnaps(u.n[1], SnapIds))
                                  \cup {<<u.m[1], x[2]>> : x \in disk \cap VolAndSnaps(u.n[1], SnapIds)})
                 [] u.k = "voldel" -> DiskStep(t, r1, disk \ {u.n})
                 [] u.k = "drvdel" -> DiskStep(t, r1, disk \ VolAndSnaps(u.n[1], SnapIds))
                 [] u.k = "unavail" -> PoolStep(t, r1, MarkUnavailable(pool))
                 [] u.k = "unmount" ->
                      \E ok \in BOOLEAN :
                        PoolStep(t, r1, IF ok THEN [pool EXCEPT !.mounted = FALSE] ELSE pool)
                 [] OTHER -> OnlyTh(t, Call(r1, "di_snaps", "revert"))

----------------------------------------------------------------------------
\* DeleteInstance (backend.go:2336), as an operation and as a compensating action.
DeleteInstance_Snaps(t) ==
    /\ At(t, "di_snaps")
    /\ LET r == th[t] IN
       IF VolumeDBSnapshotsGet(db, r.inst) = {}
       THEN OnlyTh(t, [r EXCEPT !.pc = "di_vol"])
       ELSE OnlyTh(t, Return(r, "err"))

DeleteInstance_Vol(t) ==
    /\ At(t, "di_vol")
    /\ LET r == th[t]
           vol == VolName(r.inst)
       IN IF vol \in disk
          THEN \E ok \in BOOLEAN :
                 IF ok THEN DiskStep(t, [r EXCEPT !.pc = "di_db"], disk \ {vol})
                 ELSE OnlyTh(t, Return([r EXCEPT !.fault = TRUE], "err"))
          ELSE OnlyTh(t, [r EXCEPT !.pc = "di_db"])

DeleteInstance_DB(t) ==
    /\ At(t, "di_db")
    /\ LET r == th[t]
           n == VolName(r.inst)
       IN \E symlinkOk \in BOOLEAN :
            IF symlinkOk /\ Found(db, n)
            THEN DBStep(t, Return(r, "ok"), DBRemove(db, n))
            ELSE OnlyTh(t, Return([r EXCEPT !.fault = @ \/ ~symlinkOk], "err"))

----------------------------------------------------------------------------
\* CreateInstanceFromBackup (backend.go:748): the Driver unpacks the backup,
\* with r.snap snapshots, into the new volumes; the function returns a post hook.
CreateInstanceFromBackup_Drv(t) ==
    /\ At(t, "CreateInstanceFromBackup")
    /\ LET r == WithReverter([th[t] EXCEPT !.sl = 1..th[t].snap])
           vol == VolName(r.inst)
       IN \E ok \in (IF vol \in disk THEN {FALSE} ELSE BOOLEAN) :
            IF ~ok
            THEN OnlyTh(t, Return([r EXCEPT !.physFail = TRUE], "err"))
            ELSE DiskStep(t, [RevAdd(r, Undo("drvdel", vol, vol, 0)) EXCEPT !.pc = "cib_link"],
                          disk \cup VolAndSnaps(r.inst, r.sl))

\* The symlinks and the update of the backup file; then importRevert.Success()
\* and the return of the post hook, which the caller runs once the instance
\* is in its database.
CreateInstanceFromBackup_Link(t) ==
    /\ At(t, "cib_link")
    /\ \E ok \in BOOLEAN :
         IF ok
         THEN OnlyTh(t, [Success(th[t]) EXCEPT !.pc = "cib_hook", !.todo = SeqOf(th[t].sl)])
         ELSE OnlyTh(t, Return(th[t], "err"))

\* The post hook (backend.go:838): the row of the volume, under the hook's
\* own reverter.
CreateInstanceFromBackup_HookDB(t) ==
    /\ At(t, "cib_hook")
    /\ CreateRow(t, th[t], VolName(th[t].inst), 0,
                 IF th[t].todo = <<>> THEN "cib_end" ELSE "cib_snap")

\* The post hook: the row of each snapshot of the backup.
CreateInstanceFromBackup_HookSnapDB(t) ==
    /\ At(t, "cib_snap")
    /\ LET r == [th[t] EXCEPT !.todo = Tail(@)]
       IN CreateRow(t, r, GetSnapshotVolumeName(r.inst, Head(th[t].todo)), 0,
                    IF r.todo = <<>> THEN "cib_end" ELSE "cib_snap")

\* The post hook: UpdateInstanceBackupFile, the Driver's post hook and
\* b.driver.SetVolumeQuota, then postHookRevert.Success().
CreateInstanceFromBackup_HookEnd(t) ==
    /\ At(t, "cib_end")
    /\ \E ok \in BOOLEAN :
         IF ok
         THEN OnlyTh(t, Return(Success(th[t]), "ok"))
         ELSE OnlyTh(t, Return([th[t] EXCEPT !.physFail = TRUE], "err"))

----------------------------------------------------------------------------
\* A CreateInstance that goes to the Driver without VolumeDBCreate.
CreateInstance_NoDB(t) ==
    /\ At(t, "CreateInstance")
    /\ OnlyTh(t, [WithReverter(th[t]) EXCEPT !.pc = "ci_drv"])

\* CreateInstance (backend.go:655).
CreateInstance_DB(t) ==
    /\ At(t, "CreateInstance")
    /\ IF ~isStatusReady(pool) THEN OnlyTh(t, Return(th[t], "err")) ELSE
       LET r == WithReverter(th[t]) IN CreateRow(t, r, VolName(r.inst), 0, "ci_drv")

CreateInstance_Drv(t) ==
    /\ At(t, "ci_drv")
    /\ LET r == th[t]
           vol == VolName(r.inst)
       IN \E ok \in (IF vol \in disk THEN {FALSE} ELSE BOOLEAN), symlinkOk \in BOOLEAN :
            IF ~ok
            THEN OnlyTh(t, Return([r EXCEPT !.physFail = TRUE], "err"))
            ELSE LET r1 == RevAdd(r, Undo("delinst", vol, vol, 0)) IN
                 DiskStep(t, IF symlinkOk THEN Return(Success(r1), "ok") ELSE Return(r1, "err"),
                          disk \cup {vol})

----------------------------------------------------------------------------
\* A freeze that leaves the instance frozen: Freeze() without defer Unfreeze().
FreezeStepNoDefer(t, r, need, next) ==
    IF need
    THEN \E ok \in BOOLEAN :
           IF ok
           THEN /\ frozen' = TRUE
                /\ Set(t, [r EXCEPT !.froze = TRUE, !.pc = next])
                /\ UNCHANGED <<db, disk, locks>> /\ Env
           ELSE OnlyTh(t, Return(r, "err"))
    ELSE OnlyTh(t, [r EXCEPT !.pc = next])

\* Freezing the running source instance for a consistent copy: Freeze() and
\* defer Unfreeze() when need holds, an error return when Freeze() fails.
FreezeStep(t, r, need, next) ==
    IF need
    THEN \E ok \in BOOLEAN :
           IF ok
           THEN /\ frozen' = TRUE
                /\ Set(t, [r EXCEPT !.defers = Append(@, Defer("unfreeze", <<"", "">>)),
                                    !.froze = TRUE, !.pc = next])
                /\ UNCHANGED <<db, disk, locks>> /\ Env
           ELSE OnlyTh(t, Return(r, "err"))
    ELSE OnlyTh(t, [r EXCEPT !.pc = next])

\* The advisory keyed lock: a key is held from Lock to unlock, and Lock waits
\* while it is.
Held(l, key) == l[key] # "free"

\* context.TODO(): an empty context, never cancelled and without a deadline.
ContextTODO == "none"

\* ctx.Done() is closed.
ContextDone(c) == c = "cancelled"

\* A lock that does not wait for its holder.
LockStepNoWait(t, r, key, next) ==
    /\ locks' = [locks EXCEPT ![key] = t]
    /\ Set(t, [r EXCEPT !.defers = Append(@, Defer("unlock", key)), !.pc = next])
    /\ UNCHANGED <<db, disk, frozen>> /\ Env

\* locking.Lock(context.TODO(), key) followed by defer unlock(): waits while the
\* key is held, and returns an error once its context is done.
LockStep(t, r, key, next) ==
    IF ContextDone(ContextTODO)
    THEN OnlyTh(t, Return(r, "err"))
    ELSE /\ ~Held(locks, key)
         /\ locks' = [locks EXCEPT ![key] = t]
         /\ Set(t, [r EXCEPT !.defers = Append(@, Defer("unlock", key)), !.pc = next])
         /\ UNCHANGED <<db, disk, frozen>> /\ Env

\* The Driver creates a snapshot only of a volume it has, under a name it has not.
CanSnapshot(k, n) == n \notin k /\ VolName(n[1]) \in k

----------------------------------------------------------------------------
\* CreateInstanceSnapshot (backend.go:3031): inst is the snapshot <<src, snap>>.
CreateInstanceSnapshot_Get(t) ==
    /\ At(t, "CreateInstanceSnapshot")
    /\ LET r == th[t]
           srcDBVol == db[VolName(r.src)]
       IN IF srcDBVol.own = "none"
          THEN OnlyTh(t, Return(r, "err"))
          ELSE OnlyTh(t, [WithReverter(r) EXCEPT !.c = srcDBVol.cfg, !.pc = "cis_db"])

CreateInstanceSnapshot_DB(t) ==
    /\ At(t, "cis_db")
    /\ LET r == th[t] IN
       CreateRow(t, r, GetSnapshotVolumeName(r.src, r.snap), r.c, "cis_freeze")

CreateInstanceSnapshot_Freeze(t) ==
    /\ At(t, "cis_freeze")
    /\ FreezeStep(t, th[t], freezeDrv /\ running /\ ~frozen, "cis_lock")

\* The lock is taken and b.driver.CreateVolumeSnapshot is called: at cis_drv the
\* Driver call is in progress.
CreateInstanceSnapshot_Lock(t) ==
    /\ At(t, "cis_lock")
    /\ LockStep(t, th[t], OperationLockName("CreateInstanceSnapshot", NameInProject(th[t].src)), "cis_drv")

CreateInstanceSnapshot_Drv(t) ==
    /\ At(t, "cis_drv")
    /\ LET r == th[t]
           vol == GetSnapshotVolumeName(r.src, r.snap)
       IN \E ok \in (IF CanSnapshot(disk, vol) THEN BOOLEAN ELSE {FALSE}), symlinkOk \in BOOLEAN :
            IF ~ok
            THEN OnlyTh(t, Return([r EXCEPT !.physFail = TRUE], "err"))
            ELSE DiskStep(t, IF symlinkOk THEN Return(Success(r), "ok") ELSE Return(r, "err"),
                          disk \cup {vol})

----------------------------------------------------------------------------
\* DeleteInstanceSnapshot (backend.go:3193) of the snapshot dsnap.
\* A DeleteInstanceSnapshot that goes on to the row when the Driver's deletion failed.
DeleteInstanceSnapshot_VolAnyway(t) ==
    /\ At(t, "DeleteInstanceSnapshot")
    /\ \E ok \in BOOLEAN :
         IF ok THEN DiskStep(t, [th[t] EXCEPT !.pc = "dis_db"], disk \ {th[t].dsnap})
         ELSE OnlyTh(t, [th[t] EXCEPT !.fault = th[t].dsnap \in disk, !.pc = "dis_db"])

DeleteInstanceSnapshot_Vol(t) ==
    /\ At(t, "DeleteInstanceSnapshot")
    /\ LET r == th[t] IN
       IF r.dsnap \in disk
       THEN \E ok \in BOOLEAN :
              IF ok THEN DiskStep(t, [r EXCEPT !.pc = "dis_db"], disk \ {r.dsnap})
              ELSE OnlyTh(t, Return([r EXCEPT !.fault = TRUE], "err"))
       ELSE OnlyTh(t, [r EXCEPT !.pc = "dis_db"])

DeleteInstanceSnapshot_DB(t) ==
    /\ At(t, "dis_db")
    /\ LET r == th[t] IN
       \E symlinkOk \in BOOLEAN :
         IF symlinkOk /\ Found(db, r.dsnap)
         THEN DBStep(t, Return(r, "ok"), DBRemove(db, r.dsnap))
         ELSE OnlyTh(t, Return(r, "err"))

----------------------------------------------------------------------------
\* CreateInstanceFromCopy (backend.go:1021), same-pool mode: inst is copied from src.
CreateInstanceFromCopy_Config(t) ==
    /\ At(t, "CreateInstanceFromCopy")
    /\ LET r == th[t]
           names == IF r.snaps THEN VolumeDBSnapshotsGet(db, r.src) ELSE {}
       IN IF ~isStatusReady(pool) \/ ~Found(db, VolName(r.src)) \/ VolName(r.inst) \in disk
          THEN OnlyTh(t, Return(r, "err"))
          ELSE OnlyTh(t, [WithReverter(r) EXCEPT !.sl = names, !.todo = SeqOf(names),
                                                 !.c = db[VolName(r.src)].cfg, !.pc = "cic_freeze"])

\* The freeze, then reverter.Add(DeleteInstance) ahead of every other compensating action.
CreateInstanceFromCopy_Freeze(t) ==
    /\ At(t, "cic_freeze")
    /\ LET r == th[t]
           vol == VolName(r.inst)
       IN FreezeStep(t, RevAdd(r, Undo("delinst", vol, vol, 0)),
                     freezeDrv /\ running /\ ~frozen /\ ~r.allowInc,
                     IF r.cross THEN "cicx_start" ELSE "cic_db")

CreateInstanceFromCopy_DB(t) ==
    /\ At(t, "cic_db")
    /\ LET r == th[t] IN
       CreateRow(t, r, VolName(r.inst), r.c, IF r.todo = <<>> THEN "cic_drv" ELSE "cic_snap")

\* A CreateInstanceFromCopy that inserts no row for a snapshot.
CreateInstanceFromCopy_SnapSkip(t) ==
    /\ At(t, "cic_snap")
    /\ OnlyTh(t, [th[t] EXCEPT !.todo = Tail(@),
                               !.pc = IF Tail(th[t].todo) = <<>> THEN "cic_drv" ELSE "cic_snap"])

CreateInstanceFromCopy_SnapDB(t) ==
    /\ At(t, "cic_snap")
    /\ LET r == [th[t] EXCEPT !.todo = Tail(@)]
           s == Head(th[t].todo)
       IN CreateRow(t, r, GetSnapshotVolumeName(r.inst, s), db[GetSnapshotVolumeName(r.src, s)].cfg,
                    IF r.todo = <<>> THEN "cic_drv" ELSE "cic_snap")

\* b.driver.CreateVolumeFromCopy, in progress at cic_drv: one call copies the
\* volume and its snapshots.
CreateInstanceFromCopy_Drv(t) ==
    /\ At(t, "cic_drv")
    /\ LET r == [th[t] EXCEPT !.nCreate = @ + 1]
           vols == VolAndSnaps(r.inst, r.sl)
       IN \E ok \in (IF vols \cap disk = {} /\ VolName(r.src) \in disk THEN BOOLEAN ELSE {FALSE}),
             symlinkOk \in BOOLEAN :
            IF ~ok
            THEN OnlyTh(t, Return([r EXCEPT !.physFail = TRUE], "err"))
            ELSE DiskStep(t, IF symlinkOk THEN Return(Success(r), "ok") ELSE Return(r, "err"),
                          disk \cup vols)

----------------------------------------------------------------------------
\* RenameInstance (backend.go:2189): inst is renamed to src (newName).
\* tx.GetInstanceSnapshotsNames: the instance's snapshot records mirror the
\* snapshot rows of its volume.
RenameInstance_Get(t) ==
    /\ At(t, "RenameInstance")
    /\ LET r == th[t] IN
       OnlyTh(t, [WithReverter(r) EXCEPT !.todo = SeqOf(VolumeDBSnapshotsGet(db, r.inst)),
                  !.pc = IF VolumeDBSnapshotsGet(db, r.inst) = {} THEN "ri_parent" ELSE "ri_snap"])

\* Rename each snapshot DB record to have the new parent volume prefix.
RenameInstance_SnapDB(t) ==
    /\ At(t, "ri_snap")
    /\ LET r == th[t]
           old == GetSnapshotVolumeName(r.inst, Head(r.todo))
           new == GetSnapshotVolumeName(r.src, Head(r.todo))
       IN IF CanRename(db, old, new)
          THEN DBStep(t, [RevAdd(r, Undo("dbren", new, old, 0)) EXCEPT
                            !.todo = Tail(@),
                            !.pc = IF Tail(r.todo) = <<>> THEN "ri_parent" ELSE "ri_snap"],
                      DBRename(db, old, new))
          ELSE OnlyTh(t, Return(r, "err"))

\* Rename the parent volume DB record.
RenameInstance_ParentDB(t) ==
    /\ At(t, "ri_parent")
    /\ LET r == th[t]
           old == VolName(r.inst)
           new == VolName(r.src)
       IN IF CanRename(db, old, new)
          THEN DBStep(t, [RevAdd(r, Undo("dbren", new, old, 0)) EXCEPT !.pc = "ri_drv"],
                      DBRename(db, old, new))
          ELSE OnlyTh(t, Return(r, "err"))

\* b.driver.RenameVolume of the volume and its snapshots, then the symlinks.
RenameInstance_Drv(t) ==
    /\ At(t, "ri_drv")
    /\ LET r == th[t]
           olds == disk \cap VolAndSnaps(r.inst, SnapIds)
           news == {<<r.src, x[2]>> : x \in olds}
           r1 == RevAdd(r, Undo("drvren", VolName(r.src), VolName(r.inst), 0))
       IN \E ok \in (IF VolName(r.inst) \in disk /\ disk \cap VolAndSnaps(r.src, SnapIds) = {}
                     THEN BOOLEAN ELSE {FALSE}),
             symlinkOk \in BOOLEAN :
            IF ~ok
            THEN OnlyTh(t, Return(r, "err"))
            ELSE DiskStep(t, IF symlinkOk THEN Return(Success(r1), "ok") ELSE Return(r1, "err"),
                          (disk \ olds) \cup news)

----------------------------------------------------------------------------
\* RestoreInstanceSnapshot (backend.go:3251): inst is restored from <<inst, snap>>.
RestoreInstanceSnapshot_Get(t) ==
    /\ At(t, "RestoreInstanceSnapshot")
    /\ LET r == WithReverter(th[t])
           dbVol == db[VolName(r.inst)]
           srcDBVol == db[GetSnapshotVolumeName(r.inst, r.snap)]
       IN IF running \/ dbVol.own = "none" \/ srcDBVol.own = "none"
          THEN OnlyTh(t, Return(r, "err"))
          ELSE OnlyTh(t, [r EXCEPT !.c = dbVol.cfg, !.pc = "rs_upd"])

\* Restore snapshot volume config if different (tx.UpdateStoragePoolVolume).
RestoreInstanceSnapshot_Update(t) ==
    /\ At(t, "rs_upd")
    /\ LET r == th[t]
           n == VolName(r.inst)
           srcDBVol == db[GetSnapshotVolumeName(r.inst, r.snap)]
       IN IF srcDBVol.own = "none" \/ srcDBVol.cfg = r.c
          THEN OnlyTh(t, [r EXCEPT !.pc = "rs_drv"])
          ELSE IF Found(db, n)
               THEN DBStep(t, [RevAdd(r, Undo("dbcfg", n, n, r.c)) EXCEPT !.pc = "rs_drv"],
                           DBSetConfig(db, n, srcDBVol.cfg))
               ELSE OnlyTh(t, Return(r, "err"))

\* The snapshots of parent the Driver holds that are newer than snap: the ones
\* drivers.ErrDeleteSnapshots names.
NewerSnaps(k, parent, snap) == {s \in SnapIds : s > snap /\ <<parent, s>> \in k}

\* return nil of the retry path, RestoreInstanceSnapshot line 3360.
RestoreRetryReturn(r) == Return([r EXCEPT !.retried = TRUE], "ok")

\* What b.driver.RestoreVolume returns: nil, an error, or ErrDeleteSnapshots
\* with the snapshots newer than the restored one.
RestoreOutcomes(newer) == {"ok", "err"} \cup (IF newer = {} THEN {} ELSE {"snaps"})

\* The record after a call of b.driver.RestoreVolume that returned out.
Restored(r, out) == [r EXCEPT !.restores = Append(@, out)]

\* b.driver.RestoreVolume: success, an error, or ErrDeleteSnapshots.
RestoreInstanceSnapshot_Drv(t) ==
    /\ At(t, "rs_drv")
    /\ LET newer == NewerSnaps(disk, th[t].inst, th[t].snap)
       IN \E out \in RestoreOutcomes(newer) :
            LET r == Restored(th[t], out) IN
            CASE out = "ok" -> OnlyTh(t, Return(Success(r), "ok"))
              [] out = "err" -> OnlyTh(t, Return([r EXCEPT !.physFail = TRUE], "err"))
              [] OTHER -> OnlyTh(t, [r EXCEPT !.todo = SeqOf(newer), !.pc = "rs_del"])

\* Delete snapshot instance if listed in the error as one that needs removing.
RestoreInstanceSnapshot_Delete(t) ==
    /\ At(t, "rs_del")
    /\ LET r == th[t] IN
       IF r.cret = "err"
       THEN OnlyTh(t, Return([r EXCEPT !.cret = "ok"], "err"))
       ELSE IF r.todo = <<>>
            THEN OnlyTh(t, [r EXCEPT !.pc = "rs_retry"])
            ELSE OnlyTh(t, Call([r EXCEPT !.dsnap = GetSnapshotVolumeName(r.inst, Head(r.todo)),
                                          !.todo = Tail(@)],
                                "DeleteInstanceSnapshot", "rs_del"))

\* Now try restoring again.
RestoreInstanceSnapshot_Retry(t) ==
    /\ At(t, "rs_retry")
    /\ \E out \in RestoreOutcomes(NewerSnaps(disk, th[t].inst, th[t].snap)) :
         LET r == Restored(th[t], out) IN
         IF out = "ok" THEN OnlyTh(t, RestoreRetryReturn(r))
         ELSE OnlyTh(t, Return([r EXCEPT !.physFail = TRUE], "err"))

----------------------------------------------------------------------------
\* b.state.Events.SendLifecycle(projectName, lifecycle.StorageVolumeRestored.Event(...)):
\* events counts the StorageVolumeRestored events of the call.
SendLifecycle(r) == [r EXCEPT !.events = @ + 1]

\* RestoreCustomVolume (backend.go:6150): volume inst is restored from its
\* snapshot snap.
RestoreCustomVolume_Get(t) ==
    /\ At(t, "RestoreCustomVolume")
    /\ LET r == th[t] IN
       \E usedByRunning \in BOOLEAN :
         IF ~Found(db, VolName(r.inst)) \/ usedByRunning
         THEN OnlyTh(t, Return(r, "err"))
         ELSE OnlyTh(t, [r EXCEPT !.pc = "rcr_drv"])

\* A restore that tries again after any error of the Driver.
RestoreCustomVolume_DrvRetryAll(t) ==
    /\ At(t, "rcr_drv")
    /\ LET newer == NewerSnaps(disk, th[t].inst, th[t].snap)
       IN \E out \in RestoreOutcomes(newer) :
            LET r == Restored(th[t], out) IN
            CASE out = "ok" -> OnlyTh(t, Return(SendLifecycle(r), "ok"))
              [] OTHER -> OnlyTh(t, [r EXCEPT !.todo = SeqOf(newer), !.pc = "rcr_del"])

RestoreCustomVolume_Drv(t) ==
    /\ At(t, "rcr_drv")
    /\ LET newer == NewerSnaps(disk, th[t].inst, th[t].snap)
       IN \E out \in RestoreOutcomes(newer) :
            LET r == Restored(th[t], out) IN
            CASE out = "ok" -> OnlyTh(t, Return(SendLifecycle(r), "ok"))
              [] out = "err" -> OnlyTh(t, Return([r EXCEPT !.physFail = TRUE], "err"))
              [] OTHER -> OnlyTh(t, [r EXCEPT !.todo = SeqOf(newer), !.pc = "rcr_del"])

\* We need to delete some snapshots and try again.
RestoreCustomVolume_Delete(t) ==
    /\ At(t, "rcr_del")
    /\ LET r == th[t] IN
       IF r.cret = "err"
       THEN OnlyTh(t, Return([r EXCEPT !.cret = "ok"], "err"))
       ELSE IF r.todo = <<>>
            THEN OnlyTh(t, [r EXCEPT !.pc = "rcr_retry"])
            ELSE OnlyTh(t, Call([r EXCEPT !.dsnap = GetSnapshotVolumeName(r.inst, Head(r.todo)),
                                          !.todo = Tail(@)],
                                "DeleteCustomVolumeSnapshot", "rcr_del"))

\* Now try again; return err returns what the second call returned, nil
\* included, from inside the error branch of the first call.
RestoreCustomVolume_Retry(t) ==
    /\ At(t, "rcr_retry")
    /\ \E out \in RestoreOutcomes(NewerSnaps(disk, th[t].inst, th[t].snap)) :
         LET r == Restored(th[t], out) IN
         IF out = "ok" THEN OnlyTh(t, Return(r, "ok"))
         ELSE OnlyTh(t, Return([r EXCEPT !.physFail = TRUE], "err"))

----------------------------------------------------------------------------
\* CreateCustomVolume (backend.go:4662).
CreateCustomVolume_DB(t) ==
    /\ At(t, "CreateCustomVolume")
    /\ IF ~isStatusReady(pool) THEN OnlyTh(t, Return(th[t], "err")) ELSE
       LET r == WithReverter(th[t]) IN CreateRow(t, r, VolName(r.inst), 0, "ccv_drv")

CreateCustomVolume_Drv(t) ==
    /\ At(t, "ccv_drv")
    /\ LET r == th[t]
           vol == VolName(r.inst)
       IN \E ok \in (IF vol \in disk THEN {FALSE} ELSE BOOLEAN) :
            IF ok THEN DiskStep(t, Return(Success(r), "ok"), disk \cup {vol})
            ELSE OnlyTh(t, Return([r EXCEPT !.physFail = TRUE], "err"))

----------------------------------------------------------------------------
\* CreateCustomVolumeSnapshot (backend.go:5954): snapshot snap of volume src.
CreateCustomVolumeSnapshot_Get(t) ==
    /\ At(t, "CreateCustomVolumeSnapshot")
    /\ LET r == th[t]
           parentVol == db[VolName(r.src)]
       IN IF Found(db, GetSnapshotVolumeName(r.src, r.snap)) \/ parentVol.own = "none"
          THEN OnlyTh(t, Return(r, "err"))
          ELSE OnlyTh(t, [WithReverter(r) EXCEPT !.c = parentVol.cfg, !.pc = "ccs_db"])

CreateCustomVolumeSnapshot_DB(t) ==
    /\ At(t, "ccs_db")
    /\ LET r == th[t] IN
       CreateRow(t, r, GetSnapshotVolumeName(r.src, r.snap), r.c, "ccs_lock")

CreateCustomVolumeSnapshot_Lock(t) ==
    /\ At(t, "ccs_lock")
    /\ LockStep(t, th[t], OperationLockName("CreateCustomVolumeSnapshot", NameInProject(th[t].src)), "ccs_drv")

CreateCustomVolumeSnapshot_Drv(t) ==
    /\ At(t, "ccs_drv")
    /\ LET r == th[t]
           vol == GetSnapshotVolumeName(r.src, r.snap)
       IN \E ok \in (IF CanSnapshot(disk, vol) THEN BOOLEAN ELSE {FALSE}) :
            IF ok THEN DiskStep(t, Return(Success(r), "ok"), disk \cup {vol})
            ELSE OnlyTh(t, Return([r EXCEPT !.physFail = TRUE], "err"))

----------------------------------------------------------------------------
\* CreateCustomVolumeFromCopy (backend.go:4720), same-pool mode.
CreateCustomVolumeFromCopy_Config(t) ==
    /\ At(t, "CreateCustomVolumeFromCopy")
    /\ LET r == th[t]
           names == IF r.snaps THEN VolumeDBSnapshotsGet(db, r.src) ELSE {}
       IN IF ~isStatusReady(pool) \/ ~Found(db, VolName(r.src))
          THEN OnlyTh(t, Return(r, "err"))
          ELSE OnlyTh(t, [WithReverter(r) EXCEPT !.sl = names, !.todo = SeqOf(names),
                             !.c = db[VolName(r.src)].cfg,
                             !.pc = IF r.cross THEN "cccx_start" ELSE "ccc_db"])

CreateCustomVolumeFromCopy_DB(t) ==
    /\ At(t, "ccc_db")
    /\ LET r == th[t] IN
       CreateRow(t, r, VolName(r.inst), r.c, IF r.todo = <<>> THEN "ccc_drv" ELSE "ccc_snap")

CreateCustomVolumeFromCopy_SnapDB(t) ==
    /\ At(t, "ccc_snap")
    /\ LET r == [th[t] EXCEPT !.todo = Tail(@)]
           s == Head(th[t].todo)
       IN CreateRow(t, r, GetSnapshotVolumeName(r.inst, s), db[GetSnapshotVolumeName(r.src, s)].cfg,
                    IF r.todo = <<>> THEN "ccc_drv" ELSE "ccc_snap")

CreateCustomVolumeFromCopy_Drv(t) ==
    /\ At(t, "ccc_drv")
    /\ LET r == th[t]
           vols == VolAndSnaps(r.inst, r.sl)
       IN \E ok \in (IF vols \cap disk = {} /\ VolName(r.src) \in disk THEN BOOLEAN ELSE {FALSE}) :
            IF ok THEN DiskStep(t, Return(Success(r), "ok"), disk \cup vols)
            ELSE OnlyTh(t, Return([r EXCEPT !.physFail = TRUE], "err"))

----------------------------------------------------------------------------
\* DeleteCustomVolumeSnapshot (backend.go:6090) of the snapshot dsnap.
DeleteCustomVolumeSnapshot_Get(t) ==
    /\ At(t, "DeleteCustomVolumeSnapshot")
    /\ LET r == th[t] IN
       IF Found(db, r.dsnap) THEN OnlyTh(t, [r EXCEPT !.pc = "dcs_vol"])
       ELSE OnlyTh(t, Return(r, "err"))

DeleteCustomVolumeSnapshot_Vol(t) ==
    /\ At(t, "dcs_vol")
    /\ LET r == th[t] IN
       IF r.dsnap \in disk
       THEN \E ok \in BOOLEAN :
              IF ok THEN DiskStep(t, [r EXCEPT !.pc = "dcs_db"], disk \ {r.dsnap})
              ELSE OnlyTh(t, Return([r EXCEPT !.fault = TRUE], "err"))
       ELSE OnlyTh(t, [r EXCEPT !.pc = "dcs_db"])

DeleteCustomVolumeSnapshot_DB(t) ==
    /\ At(t, "dcs_db")
    /\ LET r == th[t] IN
       IF Found(db, r.dsnap) THEN DBStep(t, Return(r, "ok"), DBRemove(db, r.dsnap))
       ELSE OnlyTh(t, Return(r, "err"))

----------------------------------------------------------------------------
\* DeleteCustomVolume (backend.go:5667) of the volume inst.
DeleteCustomVolume_Snaps(t) ==
    /\ At(t, "DeleteCustomVolume")
    /\ LET r == th[t] IN
       OnlyTh(t, [r EXCEPT !.todo = SeqOf(VolumeDBSnapshotsGet(db, r.inst)), !.pc = "dcv_snap"])

\* Remove each snapshot.
DeleteCustomVolume_Snap(t) ==
    /\ At(t, "dcv_snap")
    /\ LET r == th[t] IN
       IF r.cret = "err"
       THEN OnlyTh(t, Return([r EXCEPT !.cret = "ok"], "err"))
       ELSE IF r.todo = <<>>
            THEN OnlyTh(t, [r EXCEPT !.pc = "dcv_get"])
            ELSE OnlyTh(t, Call([r EXCEPT !.dsnap = GetSnapshotVolumeName(r.inst, Head(r.todo)),
                                          !.todo = Tail(@)],
                                "DeleteCustomVolumeSnapshot", "dcv_snap"))

DeleteCustomVolume_Get(t) ==
    /\ At(t, "dcv_get")
    /\ LET r == th[t] IN
       IF Found(db, VolName(r.inst)) THEN OnlyTh(t, [r EXCEPT !.pc = "dcv_vol"])
       ELSE OnlyTh(t, Return(r, "err"))

\* Delete the volume from the storage device. Must come after snapshots are removed.
DeleteCustomVolume_Vol(t) ==
    /\ At(t, "dcv_vol")
    /\ LET r == th[t]
           vol == VolName(r.inst)
       IN IF vol \in disk
          THEN \E ok \in BOOLEAN :
                 IF ok THEN DiskStep(t, [r EXCEPT !.pc = "dcv_db"], disk \ {vol})
                 ELSE OnlyTh(t, Return([r EXCEPT !.fault = TRUE], "err"))
          ELSE OnlyTh(t, [r EXCEPT !.pc = "dcv_db"])

\* Finally, remove the volume record from the database.
DeleteCustomVolume_DB(t) ==
    /\ At(t, "dcv_db")
    /\ LET r == th[t]
           n == VolName(r.inst)
       IN IF Found(db, n) THEN DBStep(t, Return(r, "ok"), DBRemove(db, n))
          ELSE OnlyTh(t, Return(r, "err"))

----------------------------------------------------------------------------
\* The image volume's recorded config against the pool's current settings for
\* new volumes: Current matches them, SizeChanged differs in volume.size,
\* BlockChanged in block mode or block.filesystem.
Current == 0
SizeChanged == 1
BlockChanged == 2

Unlock(key) == locks' = [locks EXCEPT ![key] = "free"]

\* A return of DeleteImage: its deferred unlock() runs with it.
DeleteImageReturn(t, r, result, d, k) ==
    /\ Set(t, Return(r, result))
    /\ Unlock(OperationLockName("DeleteImage", r.inst))
    /\ db' = d /\ disk' = k
    /\ UNCHANGED frozen /\ Env

\* DeleteImage (backend.go:3733) of the image inst.
DeleteImage_Lock(t) ==
    /\ At(t, "DeleteImage")
    /\ LET key == OperationLockName("DeleteImage", th[t].inst) IN
       IF ContextDone(ContextTODO)
       THEN OnlyTh(t, Return(th[t], "err"))
       ELSE /\ ~Held(locks, key)
            /\ locks' = [locks EXCEPT ![key] = t]
            /\ Set(t, [th[t] EXCEPT !.pc = "dimg_get"])
            /\ UNCHANGED <<db, disk, frozen>> /\ Env

DeleteImage_Get(t) ==
    /\ At(t, "dimg_get")
    /\ LET r == th[t] IN
       IF Found(db, VolName(r.inst)) THEN OnlyTh(t, [r EXCEPT !.pc = "dimg_vol"])
       ELSE DeleteImageReturn(t, r, "err", db, disk)

DeleteImage_Vol(t) ==
    /\ At(t, "dimg_vol")
    /\ LET r == th[t]
           vol == VolName(r.inst)
       IN IF vol \in disk
          THEN \E ok \in BOOLEAN :
                 IF ok THEN DiskStep(t, [r EXCEPT !.pc = "dimg_db"], disk \ {vol})
                 ELSE DeleteImageReturn(t, [r EXCEPT !.fault = TRUE], "err", db, disk)
          ELSE OnlyTh(t, [r EXCEPT !.pc = "dimg_db"])

DeleteImage_DB(t) ==
    /\ At(t, "dimg_db")
    /\ LET r == th[t]
           n == VolName(r.inst)
       IN IF Found(db, n) THEN DeleteImageReturn(t, r, "ok", DBRemove(db, n), disk)
          ELSE DeleteImageReturn(t, r, "err", db, disk)

----------------------------------------------------------------------------
\* An EnsureImage that takes no lock.
EnsureImage_NoLock(t) ==
    /\ At(t, "EnsureImage")
    /\ OnlyTh(t, [th[t] EXCEPT !.pc = "ei_get"])

\* EnsureImage (backend.go:3461) of the image inst, on a driver with OptimizedImages.
EnsureImage_Lock(t) ==
    /\ At(t, "EnsureImage")
    /\ IF ~isStatusReady(pool) THEN OnlyTh(t, Return(th[t], "err")) ELSE
       LockStep(t, th[t], OperationLockName("EnsureImage", th[t].inst), "ei_get")

\* An EnsureImage that keeps the recorded volume whatever its config.
EnsureImage_GetKeep(t) ==
    /\ At(t, "ei_get")
    /\ LET imgDBVol == db[VolName(th[t].inst)] IN
       OnlyTh(t, [th[t] EXCEPT !.imgDBVol = imgDBVol.own # "none", !.c = imgDBVol.cfg,
                               !.pc = "ei_has"])

\* VolumeDBGet of the image row, and the comparison of its config with the pool's.
EnsureImage_Get(t) ==
    /\ At(t, "ei_get")
    /\ LET r == th[t]
           imgDBVol == db[VolName(r.inst)]
           r1 == [r EXCEPT !.imgDBVol = imgDBVol.own # "none", !.c = imgDBVol.cfg]
       IN IF imgDBVol.own # "none" /\ imgDBVol.cfg = BlockChanged
          THEN OnlyTh(t, Call(r1, "DeleteImage", "ei_regen"))
          ELSE OnlyTh(t, [r1 EXCEPT !.pc = "ei_has"])

\* After the DeleteImage of a volume that no longer matches the pool's settings.
EnsureImage_Regen(t) ==
    /\ At(t, "ei_regen")
    /\ LET r == th[t] IN
       IF r.cret = "err" THEN OnlyTh(t, Return([r EXCEPT !.cret = "ok"], "err"))
       ELSE OnlyTh(t, [r EXCEPT !.imgDBVol = FALSE, !.pc = "ei_has"])

\* b.driver.HasVolume: a recorded volume goes to the size check, an unrecorded
\* one is a leftover and is deleted.
EnsureImage_Has(t) ==
    /\ At(t, "ei_has")
    /\ LET r == th[t]
           imgVol == VolName(r.inst)
       IN IF imgVol \in disk
          THEN IF r.imgDBVol
               THEN OnlyTh(t, [r EXCEPT !.pc = "ei_quota"])
               ELSE \E ok \in BOOLEAN :
                      IF ok THEN DiskStep(t, [r EXCEPT !.pc = "ei_db"], disk \ {imgVol})
                      ELSE OnlyTh(t, Return([r EXCEPT !.fault = TRUE], "err"))
          ELSE OnlyTh(t, [r EXCEPT !.pc = "ei_db"])

\* The outcomes of b.driver.SetVolumeQuota for a recorded config c.
QuotaOutcomes(c) == IF c = SizeChanged THEN {"ok", "shrunk", "err"} ELSE {"ok", "err"}

\* An EnsureImage that returns every error of SetVolumeQuota.
EnsureImage_QuotaFail(t) ==
    /\ At(t, "ei_quota")
    /\ \E out \in QuotaOutcomes(th[t].c) :
         LET r == [th[t] EXCEPT !.quota = out] IN
         CASE out = "ok" -> OnlyTh(t, Return(r, "ok"))
           [] OTHER -> OnlyTh(t, Return(r, "err"))

\* b.driver.SetVolumeQuota on the recorded volume: nil returns, ErrCannotBeShrunk
\* (and ErrNotSupported) deletes the image, any other error is returned.
EnsureImage_Quota(t) ==
    /\ At(t, "ei_quota")
    /\ \E out \in QuotaOutcomes(th[t].c) :
         LET r == [th[t] EXCEPT !.quota = out] IN
         CASE out = "ok" -> OnlyTh(t, Return(r, "ok"))
           [] out = "err" -> OnlyTh(t, Return([r EXCEPT !.fault = TRUE], "err"))
           [] OTHER -> OnlyTh(t, Call(r, "DeleteImage", "ei_resized"))

\* After the DeleteImage of a volume that cannot be resized.
EnsureImage_Resized(t) ==
    /\ At(t, "ei_resized")
    /\ LET r == th[t] IN
       IF r.cret = "err" THEN OnlyTh(t, Return([r EXCEPT !.cret = "ok"], "err"))
       ELSE OnlyTh(t, [r EXCEPT !.imgDBVol = FALSE, !.pc = "ei_db"])

EnsureImage_DB(t) ==
    /\ At(t, "ei_db")
    /\ LET r == WithReverter(th[t]) IN CreateRow(t, r, VolName(r.inst), Current, "ei_drv")

\* b.driver.CreateVolume with the filler, then the update of the row's size.
EnsureImage_Drv(t) ==
    /\ At(t, "ei_drv")
    /\ LET r == [th[t] EXCEPT !.nCreate = @ + 1]
           imgVol == VolName(r.inst)
       IN \E ok \in (IF imgVol \in disk THEN {FALSE} ELSE BOOLEAN), updOk \in BOOLEAN :
            IF ~ok
            THEN OnlyTh(t, Return([r EXCEPT !.physFail = TRUE, !.fault = TRUE], "err"))
            ELSE LET r1 == RevAdd(r, Undo("voldel", imgVol, imgVol, 0)) IN
                 DiskStep(t, IF updOk THEN Return(Success(r1), "ok")
                             ELSE Return([r1 EXCEPT !.fault = TRUE], "err"),
                          disk \cup {imgVol})

----------------------------------------------------------------------------
\* Cross-pool transfers: the sender and the receiver run as the tasks snd and
\* rcv, joined by the pipe pair.  A Write blocks until the other end has read
\* the frame, a read until a frame is there; both return an error once the
\* context is cancelled.

\* The pipe pair is governed by the context: once it is cancelled, a read or a
\* Write of either end returns an error, a blocked one included.
PipeClosed(c) == c = "cancelled"

MigStep(t, r, p) ==
    /\ Set(t, r)
    /\ pipe' = p
    /\ UNCHANGED <<db, disk, locks, frozen, running, freezeDrv, pool, zfs, zc, ctx, gerr>>

\* The task of a transfer, with the arguments its caller r gives it.
Task(op, r, refresh) ==
    [Idle EXCEPT !.op = op, !.pc = op, !.inst = r.inst, !.src = r.src, !.snaps = r.snaps,
                 !.allowInc = r.allowInc, !.sl = r.sl, !.todo = SeqOf(r.sl), !.c = r.c,
                 !.refresh = refresh, !.cross = TRUE]

\* context.WithCancel, memorypipe.NewPipePair and the start of the two tasks.
StartTransfer(t, r, sender, receiver, senderRefresh) ==
    /\ th' = [th EXCEPT ![t] = r, !["snd"] = Task(sender, r, senderRefresh),
                        !["rcv"] = Task(receiver, r, r.refresh)]
    /\ ctx' = "live"
    /\ pipe' = [a2b |-> "none", b2a |-> "none"]
    /\ gerr' = "none"
    /\ UNCHANGED <<db, disk, locks, frozen, running, freezeDrv, pool, zfs, zc>>

\* g.Wait() of the error group: the first error, then the symlinks.
GroupWait(t) ==
    /\ \A p \in Tasks : Returned(p)
    /\ LET r == th[t] IN
       IF gerr # "none"
       THEN OnlyTh(t, Return([r EXCEPT !.errs = {gerr}], "err"))
       ELSE \E symlinkOk \in BOOLEAN :
              OnlyTh(t, IF symlinkOk THEN Return(Success(r), "ok") ELSE Return(r, "err"))

\* The two result channels: the errors of both tasks, then cancel().
ChannelWait(t) ==
    /\ \A p \in Tasks : Returned(p)
    /\ LET r == th[t]
           errs == {p \in Tasks : th[p].res = "err"}
       IN /\ Set(t, IF errs # {} THEN Return([r EXCEPT !.errs = errs], "err")
                    ELSE Return(Success(r), "ok"))
          /\ ctx' = "cancelled"
          /\ UNCHANGED <<db, disk, locks, frozen, running, freezeDrv, pool, zfs, zc, pipe, gerr>>

\* localMigration.MatchTypes: the first offered type that the target supports.
NoType == "none"

MatchTypes(offer, ours) ==
    LET common == {i \in 1..Len(offer) : offer[i] \in ours}
    IN IF common = {} THEN NoType ELSE offer[CHOOSE i \in common : \A j \in common : i <= j]

\* CreateInstanceFromCopy (backend.go:1152), cross-pool mode.
CreateInstanceFromCopy_Cross(t) ==
    /\ At(t, "cicx_start")
    /\ IF MatchTypes(th[t].offer, th[t].ours) = NoType THEN OnlyTh(t, Return(th[t], "err")) ELSE
       StartTransfer(t, [th[t] EXCEPT !.defers = Append(@, Defer("cancel", <<"", "">>)),
                                      !.pc = "cicx_wait"],
                     "MigrateInstance", "CreateInstanceFromMigration", FALSE)

CreateInstanceFromCopy_Wait(t) == At(t, "cicx_wait") /\ GroupWait(t)

\* A cross-pool copy that starts the tasks whatever the negotiation gives.
CreateCustomVolumeFromCopy_CrossAnyway(t) ==
    /\ At(t, "cccx_start")
    /\ StartTransfer(t, [th[t] EXCEPT !.pc = "cccx_wait"],
                     "MigrateCustomVolume", "CreateCustomVolumeFromMigration", FALSE)

\* CreateCustomVolumeFromCopy (backend.go:4854), cross-pool mode.
CreateCustomVolumeFromCopy_Cross(t) ==
    /\ At(t, "cccx_start")
    /\ IF MatchTypes(th[t].offer, th[t].ours) = NoType THEN OnlyTh(t, Return(th[t], "err")) ELSE
       StartTransfer(t, [th[t] EXCEPT !.pc = "cccx_wait"],
                     "MigrateCustomVolume", "CreateCustomVolumeFromMigration", FALSE)

CreateCustomVolumeFromCopy_Wait(t) == At(t, "cccx_wait") /\ ChannelWait(t)

\* RefreshInstance (backend.go:1517), cross-pool mode: inst is refreshed from src
\* with the source snapshots it lacks.
RefreshInstance_Get(t) ==
    /\ At(t, "RefreshInstance")
    /\ LET r == th[t]
           names == IF r.snaps
                    THEN VolumeDBSnapshotsGet(db, r.src) \ VolumeDBSnapshotsGet(db, r.inst)
                    ELSE {}
       IN IF ~Found(db, VolName(r.inst)) \/ ~Found(db, VolName(r.src))
          THEN OnlyTh(t, Return(r, "err"))
          ELSE OnlyTh(t, [WithReverter(r) EXCEPT !.sl = names, !.c = db[VolName(r.src)].cfg,
                                                 !.refresh = TRUE, !.pc = "rfi_freeze"])

RefreshInstance_Freeze(t) ==
    /\ At(t, "rfi_freeze")
    /\ FreezeStep(t, th[t], freezeDrv /\ running /\ ~frozen /\ ~th[t].allowInc, "rfi_start")

RefreshInstance_Cross(t) ==
    /\ At(t, "rfi_start")
    /\ IF MatchTypes(th[t].offer, th[t].ours) = NoType THEN OnlyTh(t, Return(th[t], "err")) ELSE
       StartTransfer(t, [th[t] EXCEPT !.defers = Append(@, Defer("cancel", <<"", "">>)),
                                      !.pc = "rfi_wait"],
                     "MigrateInstance", "CreateInstanceFromMigration", TRUE)

RefreshInstance_Wait(t) == At(t, "rfi_wait") /\ GroupWait(t)

\* CompareSnapshots with excludeOlder = false: the comparison is by name; the
\* source snapshots the target lacks are to be sent, the target snapshots the
\* source lacks are to be deleted.
CompareSnapshots(sourceSnaps, targetSnaps) ==
    [sync |-> sourceSnaps \ targetSnaps, delete |-> targetSnaps \ sourceSnaps]

\* The snapshots of the target: those that have a row, and those on storage.
\* An operation keeps in before what they were when it was called.
TargetSnapshots(d, k, parent) ==
    <<VolumeDBSnapshotsGet(d, parent), {x \in SnapIds : GetSnapshotVolumeName(parent, x) \in k}>>

\* A RefreshCustomVolume that sends every snapshot of the source.
RefreshCustomVolume_GetAll(t) ==
    /\ At(t, "RefreshCustomVolume")
    /\ LET r == [th[t] EXCEPT !.before = TargetSnapshots(db, disk, th[t].inst)]
           cmp == CompareSnapshots(VolumeDBSnapshotsGet(db, r.src), VolumeDBSnapshotsGet(db, r.inst))
       IN IF ~isStatusReady(pool) \/ ~Found(db, VolName(r.src))
          THEN OnlyTh(t, Return(r, "err"))
          ELSE OnlyTh(t, [WithReverter(r) EXCEPT
                            !.sl = IF r.snaps THEN VolumeDBSnapshotsGet(db, r.src) ELSE {},
                            !.todo = IF r.snaps THEN SeqOf(cmp.delete) ELSE <<>>,
                            !.c = db[VolName(r.src)].cfg, !.refresh = TRUE, !.pc = "rcv_del"])

\* RefreshCustomVolume (backend.go:1247): the snapshots to send and to delete.
RefreshCustomVolume_Get(t) ==
    /\ At(t, "RefreshCustomVolume")
    /\ LET r == [th[t] EXCEPT !.before = TargetSnapshots(db, disk, th[t].inst)]
           cmp == CompareSnapshots(VolumeDBSnapshotsGet(db, r.src), VolumeDBSnapshotsGet(db, r.inst))
       IN IF ~isStatusReady(pool) \/ ~Found(db, VolName(r.src))
          THEN OnlyTh(t, Return(r, "err"))
          ELSE OnlyTh(t, [WithReverter(r) EXCEPT
                            !.sl = IF r.snaps THEN cmp.sync ELSE {},
                            !.todo = IF r.snaps THEN SeqOf(cmp.delete) ELSE <<>>,
                            !.c = db[VolName(r.src)].cfg, !.refresh = TRUE, !.pc = "rcv_del"])

\* A RefreshCustomVolume that deletes no snapshot of the target.
RefreshCustomVolume_NoDelete(t) ==
    /\ At(t, "rcv_del")
    /\ OnlyTh(t, [th[t] EXCEPT !.todo = SeqOf(th[t].sl),
                               !.pc = IF th[t].cross THEN "rcv_start"
                                      ELSE IF th[t].sl = {} THEN "rcv_drv" ELSE "rcv_snap"])

\* Delete extra snapshots first.
RefreshCustomVolume_Delete(t) ==
    /\ At(t, "rcv_del")
    /\ LET r == th[t] IN
       IF r.cret = "err"
       THEN OnlyTh(t, Return([r EXCEPT !.cret = "ok"], "err"))
       ELSE IF r.todo = <<>>
            THEN OnlyTh(t, [r EXCEPT !.todo = SeqOf(r.sl),
                                     !.pc = IF r.cross THEN "rcv_start"
                                            ELSE IF r.sl = {} THEN "rcv_drv" ELSE "rcv_snap"])
            ELSE OnlyTh(t, Call([r EXCEPT !.dsnap = GetSnapshotVolumeName(r.inst, Head(r.todo)),
                                          !.todo = Tail(@)],
                                "DeleteCustomVolumeSnapshot", "rcv_del"))

\* Same-pool mode: the rows of the snapshots the target needs.
RefreshCustomVolume_SnapDB(t) ==
    /\ At(t, "rcv_snap")
    /\ LET r == [th[t] EXCEPT !.todo = Tail(@)]
           s == Head(th[t].todo)
       IN CreateRow(t, r, GetSnapshotVolumeName(r.inst, s), db[GetSnapshotVolumeName(r.src, s)].cfg,
                    IF r.todo = <<>> THEN "rcv_drv" ELSE "rcv_snap")

\* Same-pool mode: b.driver.RefreshVolume, which needs the target volume.
RefreshCustomVolume_Drv(t) ==
    /\ At(t, "rcv_drv")
    /\ LET r == th[t] IN
       \E ok \in (IF VolName(r.inst) \in disk THEN BOOLEAN ELSE {FALSE}) :
         IF ok THEN DiskStep(t, Return(Success(r), "ok"), disk \cup VolAndSnaps(r.inst, r.sl))
         ELSE OnlyTh(t, Return([r EXCEPT !.physFail = TRUE], "err"))

\* The caller calls RefreshCustomVolume a second time, with the same
\* arguments, after its success.
RefreshCustomVolume_Again(t) ==
    /\ Returned(t)
    /\ th[t].op = "RefreshCustomVolume" /\ th[t].res = "ok" /\ ~th[t].second
    /\ LET r == th[t] IN
       OnlyTh(t, [Request(r.op, r.inst, r.src, r.snap, r.snaps, r.allowInc) EXCEPT
                    !.cross = r.cross, !.had = TRUE, !.second = TRUE,
                    !.offer = r.offer, !.ours = r.ours])

RefreshCustomVolume_Cross(t) ==
    /\ At(t, "rcv_start")
    /\ IF MatchTypes(th[t].offer, th[t].ours) = NoType THEN OnlyTh(t, Return(th[t], "err")) ELSE
       StartTransfer(t, [th[t] EXCEPT !.pc = "rcv_wait"],
                     "MigrateCustomVolume", "CreateCustomVolumeFromMigration", FALSE)

RefreshCustomVolume_Wait(t) == At(t, "rcv_wait") /\ ChannelWait(t)

----------------------------------------------------------------------------
\* The sender: MigrateInstance (backend.go:2525), MigrateCustomVolume (backend.go:5061).
MigrateInstance_Get(t) ==
    /\ At(t, "MigrateInstance")
    /\ LET r == th[t] IN
       IF Found(db, VolName(r.src)) THEN OnlyTh(t, [r EXCEPT !.pc = "mih_send"])
       ELSE OnlyTh(t, Return(r, "err"))

MigrateCustomVolume_Args(t) ==
    /\ At(t, "MigrateCustomVolume")
    /\ OnlyTh(t, [th[t] EXCEPT !.pc = "mih_send"])

\* migrationIndexHeaderSend (backend.go:4975): conn.Write of the header frame.
migrationIndexHeaderSend_Write(t) ==
    /\ At(t, "mih_send")
    /\ LET r == th[t] IN
       IF PipeClosed(ctx) THEN OnlyTh(t, Return(r, "err"))
       ELSE MigStep(t, [r EXCEPT !.pc = "mih_sent"], [pipe EXCEPT !.a2b = "hdr"])

\* The Write returns once the receiver has read the frame.
migrationIndexHeaderSend_Written(t) ==
    /\ At(t, "mih_sent")
    /\ LET r == th[t] IN
       IF pipe.a2b = "none" THEN OnlyTh(t, [r EXCEPT !.pc = "mih_resp"])
       ELSE IF PipeClosed(ctx) THEN OnlyTh(t, Return(r, "err"))
       ELSE FALSE

\* A sender that keeps its own Refresh whatever the response carries.
migrationIndexHeaderSend_ReadKeep(t) ==
    /\ At(t, "mih_resp")
    /\ LET r == th[t] IN
       IF pipe.b2a # "none"
       THEN MigStep(t, [r EXCEPT !.pc = IF r.op = "MigrateInstance" THEN "mi_freeze" ELSE "mv_send"],
                    [pipe EXCEPT !.b2a = "none"])
       ELSE IF PipeClosed(ctx) THEN OnlyTh(t, Return(r, "err"))
       ELSE FALSE

\* io.ReadAll of the response: it carries the receiver's Refresh.
migrationIndexHeaderSend_Read(t) ==
    /\ At(t, "mih_resp")
    /\ LET r == th[t] IN
       IF pipe.b2a # "none"
       THEN MigStep(t, [r EXCEPT !.refresh = (pipe.b2a = "refresh"),
                                 !.pc = IF r.op = "MigrateInstance" THEN "mi_freeze" ELSE "mv_send"],
                    [pipe EXCEPT !.b2a = "none"])
       ELSE IF PipeClosed(ctx) THEN OnlyTh(t, Return(r, "err"))
       ELSE FALSE

\* Freeze the instance if not already frozen/stopped, allowInconsistent is not enabled.
MigrateInstance_Freeze(t) ==
    /\ At(t, "mi_freeze")
    /\ FreezeStep(t, th[t], freezeDrv /\ running /\ ~frozen /\ ~th[t].allowInc, "mv_send")

\* b.driver.MigrateVolume: the Driver fails, or writes the volume to the pipe.
MigrateVolume_Write(t) ==
    /\ At(t, "mv_send")
    /\ LET r == th[t] IN
       IF PipeClosed(ctx) THEN OnlyTh(t, Return(r, "err"))
       ELSE \E ok \in BOOLEAN :
              IF ok THEN MigStep(t, [r EXCEPT !.pc = "mv_sent"], [pipe EXCEPT !.a2b = "data"])
              ELSE OnlyTh(t, Return([r EXCEPT !.fault = TRUE], "err"))

MigrateVolume_Written(t) ==
    /\ At(t, "mv_sent")
    /\ LET r == th[t] IN
       IF pipe.a2b = "none" THEN OnlyTh(t, [r EXCEPT !.pc = "mv_end"])
       ELSE IF PipeClosed(ctx) THEN OnlyTh(t, Return(r, "err"))
       ELSE FALSE

\* The end of b.driver.MigrateVolume, after the volume was sent.
MigrateVolume_End(t) ==
    /\ At(t, "mv_end")
    /\ \E ok \in BOOLEAN :
         OnlyTh(t, IF ok THEN Return(th[t], "ok") ELSE Return([th[t] EXCEPT !.fault = TRUE], "err"))

----------------------------------------------------------------------------
\* The receiver: CreateInstanceFromMigration (backend.go:1911),
\* CreateCustomVolumeFromMigration (backend.go:5111).
CreateInstanceFromMigration_Start(t) ==
    /\ At(t, "CreateInstanceFromMigration")
    /\ IF ~isStatusReady(pool) THEN OnlyTh(t, Return(th[t], "err")) ELSE
       OnlyTh(t, [th[t] EXCEPT !.pc = "mhr_read"])

\* A receiver that does not check the database against the storage.
CreateCustomVolumeFromMigration_NoCheck(t) ==
    /\ At(t, "CreateCustomVolumeFromMigration")
    /\ LET r == th[t]
           volExists == VolName(r.inst) \in disk
       IN IF ~isStatusReady(pool) \/ (~r.refresh /\ volExists)
          THEN OnlyTh(t, Return(r, "err"))
          ELSE OnlyTh(t, [r EXCEPT !.refresh = r.refresh /\ volExists, !.pc = "mhr_read"])

\* The checks of the database against the storage; refresh mode is disabled if
\* the volume doesn't exist yet.
CreateCustomVolumeFromMigration_Check(t) ==
    /\ At(t, "CreateCustomVolumeFromMigration")
    /\ LET r == th[t]
           dbVol == Found(db, VolName(r.inst))
           volExists == VolName(r.inst) \in disk
       IN IF ~isStatusReady(pool) \/ dbVol # volExists \/ (~r.refresh /\ volExists)
          THEN OnlyTh(t, Return(r, "err"))
          ELSE OnlyTh(t, [r EXCEPT !.refresh = r.refresh /\ volExists, !.pc = "mhr_read"])

\* A receiver that does not wait for the end of the header frame.
migrationIndexHeaderReceive_ReadEarly(t) ==
    /\ At(t, "mhr_read")
    /\ OnlyTh(t, [th[t] EXCEPT !.pc = "mhr_send"])

\* migrationIndexHeaderReceive (backend.go:5019): io.ReadAll of the header frame.
migrationIndexHeaderReceive_Read(t) ==
    /\ At(t, "mhr_read")
    /\ LET r == th[t] IN
       IF pipe.a2b = "hdr"
       THEN MigStep(t, [r EXCEPT !.pc = "mhr_send"], [pipe EXCEPT !.a2b = "none"])
       ELSE IF PipeClosed(ctx) THEN OnlyTh(t, Return(r, "err"))
       ELSE FALSE

migrationIndexHeaderReceive_Write(t) ==
    /\ At(t, "mhr_send")
    /\ LET r == th[t] IN
       IF PipeClosed(ctx) THEN OnlyTh(t, Return(r, "err"))
       ELSE MigStep(t, [r EXCEPT !.pc = "mhr_sent"],
                    [pipe EXCEPT !.b2a = IF r.refresh THEN "refresh" ELSE "create"])

migrationIndexHeaderReceive_Written(t) ==
    /\ At(t, "mhr_sent")
    /\ LET r == th[t] IN
       IF pipe.b2a = "none"
       THEN OnlyTh(t, [r EXCEPT !.pc = IF r.op = "CreateInstanceFromMigration"
                                        THEN "cim_db" ELSE "ccm_db"])
       ELSE IF PipeClosed(ctx) THEN OnlyTh(t, Return(r, "err"))
       ELSE FALSE

\* The snapshot rows come next, then the Driver.
AfterRow(r, snap, drv) == IF r.todo = <<>> THEN drv ELSE snap

\* The checks of the database against the storage, then VolumeDBCreate if not refreshing.
CreateInstanceFromMigration_DB(t) ==
    /\ At(t, "cim_db")
    /\ LET r == th[t]
           dbVol == Found(db, VolName(r.inst))
           volExists == VolName(r.inst) \in disk
           next == AfterRow(r, "cim_snap", "cim_drv")
       IN IF dbVol # volExists \/ (r.refresh /\ ~volExists)
          THEN OnlyTh(t, Return(r, "err"))
          ELSE IF r.refresh THEN OnlyTh(t, [WithReverter(r) EXCEPT !.pc = next])
          ELSE IF volExists THEN OnlyTh(t, Return(WithReverter(r), "err"))
          ELSE CreateRow(t, WithReverter(r), VolName(r.inst), r.c, next)

CreateCustomVolumeFromMigration_DB(t) ==
    /\ At(t, "ccm_db")
    /\ LET r == th[t]
           next == AfterRow(r, "ccm_snap", "ccm_drv")
       IN IF r.refresh THEN OnlyTh(t, [WithReverter(r) EXCEPT !.pc = next])
          ELSE CreateRow(t, WithReverter(r), VolName(r.inst), r.c, next)

\* Create database entries for new storage volume snapshots.
ReceiveSnapDB(t, snap, drv) ==
    LET r == [th[t] EXCEPT !.todo = Tail(@)]
        s == Head(th[t].todo)
    IN CreateRow(t, r, GetSnapshotVolumeName(r.inst, s), db[GetSnapshotVolumeName(r.src, s)].cfg,
                 AfterRow(r, snap, drv))

CreateInstanceFromMigration_SnapDB(t) == At(t, "cim_snap") /\ ReceiveSnapDB(t, "cim_snap", "cim_drv")

CreateCustomVolumeFromMigration_SnapDB(t) == At(t, "ccm_snap") /\ ReceiveSnapDB(t, "ccm_snap", "ccm_drv")

\* b.driver.CreateVolumeFromMigration of thread t with record r; done is the
\* record after what follows its success.  Once the volume is on the pipe it is received,
\* or the Driver fails after reading it, or before.
ReceiveVolume(t, r, done) ==
    IF pipe.a2b = "data"
    THEN \E out \in {"ok", "err", "early"} :
           CASE out = "ok" ->
                  /\ Set(t, done)
                  /\ disk' = disk \cup VolAndSnaps(r.inst, r.sl)
                  /\ pipe' = [pipe EXCEPT !.a2b = "none"]
                  /\ UNCHANGED <<db, locks, frozen, running, freezeDrv, pool, zfs, zc, ctx, gerr>>
             [] out = "err" ->
                  MigStep(t, Return([r EXCEPT !.physFail = TRUE, !.fault = TRUE], "err"),
                          [pipe EXCEPT !.a2b = "none"])
             [] OTHER -> OnlyTh(t, Return([r EXCEPT !.physFail = TRUE, !.fault = TRUE], "err"))
    ELSE IF PipeClosed(ctx) THEN OnlyTh(t, Return([r EXCEPT !.physFail = TRUE], "err"))
    ELSE FALSE

\* reverter.Add(DeleteInstance) after the Driver, then the symlinks.
InstanceReceived(r) == RevAdd(r, Undo("delinst", VolName(r.inst), VolName(r.inst), 0))

CreateInstanceFromMigration_Drv(t) ==
    /\ At(t, "cim_drv")
    /\ \E symlinkOk \in BOOLEAN :
         ReceiveVolume(t, th[t],
                       IF symlinkOk THEN Return(Success(InstanceReceived(th[t])), "ok")
                       ELSE Return(InstanceReceived(th[t]), "err"))

CreateCustomVolumeFromMigration_Drv(t) ==
    /\ At(t, "ccm_drv")
    /\ ReceiveVolume(t, th[t], Return(Success(th[t]), "ok"))

InstanceRequests ==
    {Request("CreateInstance", "c2", "c2", 0, FALSE, FALSE),
     Request("RenameInstance", "c1", "c2", 0, FALSE, FALSE),
     Request("DeleteInstance", "c1", "c1", 0, FALSE, FALSE)}
      \cup {Request("CreateInstanceSnapshot", "c1", "c1", s, FALSE, FALSE) : s \in SnapIds}
      \cup {Request("DeleteInstanceSnapshot", "c1", "c1", s, FALSE, FALSE) : s \in SnapIds}
      \cup {Request("RestoreInstanceSnapshot", "c1", "c1", s, FALSE, FALSE) : s \in SnapIds}
      \cup {Request("CreateInstanceFromCopy", "c2", "c1", 0, b[1], b[2]) : b \in BOOLEAN \X BOOLEAN}

VolumeRequests ==
    {Request("CreateCustomVolume", "v2", "v2", 0, FALSE, FALSE),
     Request("DeleteCustomVolume", "v1", "v1", 0, FALSE, FALSE)}
      \cup {Request("CreateCustomVolumeSnapshot", "v1", "v1", s, FALSE, FALSE) : s \in SnapIds}
      \cup {Request("DeleteCustomVolumeSnapshot", "v1", "v1", s, FALSE, FALSE) : s \in SnapIds}
      \cup {Request("CreateCustomVolumeFromCopy", "v2", "v1", 0, b, FALSE) : b \in BOOLEAN}

ImageRequests ==
    {Request("EnsureImage", "img", "img", 0, FALSE, FALSE),
     Request("DeleteImage", "img", "img", 0, FALSE, FALSE)}

\* The create-style requests.
CreateOps ==
    {"CreateInstance", "CreateInstanceSnapshot", "CreateInstanceFromCopy", "CreateCustomVolume",
     "CreateCustomVolumeSnapshot", "CreateCustomVolumeFromCopy", "EnsureImage",
     "CreateInstanceFromBackup"}

CreateRequests ==
    {q \in InstanceRequests \cup VolumeRequests \cup ImageRequests : q.op \in CreateOps /\ ~q.allowInc}
      \cup {Request("CreateInstanceFromBackup", "c2", "c2", k, FALSE, FALSE) : k \in 0..1}

OpOrder ==
    <<"CreateInstance", "CreateInstanceSnapshot", "CreateInstanceFromCopy", "RenameInstance",
      "DeleteInstance", "DeleteInstanceSnapshot", "RestoreInstanceSnapshot",
      "CreateCustomVolume", "CreateCustomVolumeSnapshot", "CreateCustomVolumeFromCopy",
      "DeleteCustomVolume", "DeleteCustomVolumeSnapshot", "EnsureImage", "DeleteImage",
      "RefreshInstance", "RefreshCustomVolume", "CreateInstanceFromBackup",
      "RestoreCustomVolume", "Mount", "Delete", "ListUnknownVolumes",
      "CheckInstanceBackupFileSnapshots">>

\* An order of the requests.
Rank(q) ==
    100 * (CHOOSE i \in 1..Len(OpOrder) : OpOrder[i] = q.op) + 4 * q.snap
      + (IF q.snaps THEN 2 ELSE 0) + (IF q.allowInc THEN 1 ELSE 0)

\* The threads are interchangeable: of two requests, whichever comes first in
\* time, t1 runs the one that comes first in the order of the requests.
InOrder(t, q, u) ==
    IF At(u, "idle") \/ u = t THEN TRUE
    ELSE IF t = "t1" THEN Rank(q) <= Rank(th[u]) ELSE Rank(th[u]) <= Rank(q)

\* A thread takes a request.
Take(t, Q) ==
    /\ At(t, "idle")
    /\ \E q \in Q :
         /\ \A u \in Threads : InOrder(t, q, u)
         /\ OnlyTh(t, [q EXCEPT !.had = Found(db, VolName(q.inst))])

----------------------------------------------------------------------------
\* Mount and Delete of the pool.

\* Delete (backend.go:352): warningsDelete, and the return when the mount path
\* of the pool is gone.
Delete_Warnings(t) ==
    /\ At(t, "Delete")
    /\ \E ok \in BOOLEAN :
         IF ~ok THEN OnlyTh(t, Return([th[t] EXCEPT !.fault = TRUE], "err"))
         ELSE IF ~pool.path THEN OnlyTh(t, Return(th[t], "ok"))
         ELSE OnlyTh(t, [th[t] EXCEPT !.pc = "del_drv"])

\* A member of a remote pool unmounts it and clears the mount path; any other
\* Delete deletes the left over image volumes and the low-level storage.
Delete_Drv(t) ==
    /\ At(t, "del_drv")
    /\ \E remote \in BOOLEAN, ok \in BOOLEAN :
         IF ~ok
         THEN OnlyTh(t, Return([th[t] EXCEPT !.fault = TRUE], "err"))
         ELSE /\ Set(t, [th[t] EXCEPT !.pc = "del_path"])
              /\ pool' = [pool EXCEPT !.mounted = FALSE]
              /\ disk' = (IF remote THEN disk ELSE {v \in disk : v[1] \notin Images})
              /\ UNCHANGED <<db, locks, frozen, running, freezeDrv, zfs, zc, ctx, pipe, gerr>>

\* os.Remove of the mount path, then the pool leaves unavailablePools.
Delete_Path(t) ==
    /\ At(t, "del_path")
    /\ \E ok \in BOOLEAN :
         IF ~ok THEN OnlyTh(t, Return([th[t] EXCEPT !.fault = TRUE], "err"))
         ELSE PoolStep(t, Return(th[t], "ok"), MarkAvailable([pool EXCEPT !.path = FALSE]))

\* Mount (backend.go:426): the reverter marks the pool unavailable on any
\* error; the storage path is created if needed.
Mount_Dir(t) ==
    /\ At(t, "Mount")
    /\ LET r == RevAdd(WithReverter(th[t]), Undo("unavail", VolName("c1"), VolName("c1"), 0)) IN
       IF pool.path THEN OnlyTh(t, [r EXCEPT !.pc = "mnt_drv"])
       ELSE \E ok \in BOOLEAN :
              IF ok THEN PoolStep(t, [r EXCEPT !.pc = "mnt_drv"], [pool EXCEPT !.path = TRUE])
              ELSE OnlyTh(t, Return([r EXCEPT !.fault = TRUE], "err"))

\* b.driver.Mount: ourMount when the pool was not mounted before.
Mount_Drv(t) ==
    /\ At(t, "mnt_drv")
    /\ \E ok \in BOOLEAN :
         IF ~ok THEN OnlyTh(t, Return([th[t] EXCEPT !.fault = TRUE], "err"))
         ELSE IF pool.mounted THEN OnlyTh(t, [th[t] EXCEPT !.pc = "mnt_struct"])
         ELSE PoolStep(t, [RevAdd(th[t], Undo("unmount", VolName("c1"), VolName("c1"), 0))
                             EXCEPT !.pc = "mnt_struct"],
                       [pool EXCEPT !.mounted = TRUE])

\* createStorageStructure, reverter.Success() and the pool leaves unavailablePools.
Mount_Structure(t) ==
    /\ At(t, "mnt_struct")
    /\ \E ok \in BOOLEAN :
         IF ~ok THEN OnlyTh(t, Return([th[t] EXCEPT !.fault = TRUE], "err"))
         ELSE PoolStep(t, Return(Success(th[t]), "ok"), MarkAvailable(pool))

----------------------------------------------------------------------------
\* The recovery scan.  instDB holds the instances that have an instance record,
\* valid the volumes whose backup file passes every consistency check.

\* The instance volumes (containers and virtual machines) among the volumes.
IsInstanceVolume(v) == v[1] \in {"c1", "c2", "p2_c1"}

\* tx.GetInstanceID(ctx, projectName, instName) > 0
HasInstanceRecord(r, v) == v[1] \in r.instDB

\* The scan fails: ListUnknownVolumes returns nil and the error.
ScanFails(r) == Return([r EXCEPT !.unknown = {}, !.vols = {}], "err")

\* ListUnknownVolumes (backend.go:6568): b.driver.ListVolumes.
ListUnknownVolumes_List(t) ==
    /\ At(t, "ListUnknownVolumes")
    /\ \E ok \in BOOLEAN :
         IF ok THEN OnlyTh(t, [th[t] EXCEPT !.vols = {v \in disk : v[2] = 0}, !.pc = "luv_next"])
         ELSE OnlyTh(t, Return([th[t] EXCEPT !.fault = TRUE], "err"))

\* The loop over the pool's volumes, and the return of the unknown ones.
ListUnknownVolumes_Next(t) ==
    /\ At(t, "luv_next")
    /\ LET r == th[t] IN
       IF r.vols = {} THEN OnlyTh(t, Return(r, "ok"))
       ELSE \E v \in r.vols :
              OnlyTh(t, [r EXCEPT !.cur = v, !.vols = @ \ {v},
                                  !.pc = IF IsInstanceVolume(v) THEN "duiv" ELSE "ducv"])

\* A scan that takes a volume with one of its two records for a known one.
detectUnknownInstanceVolume_Either(t) ==
    /\ At(t, "duiv")
    /\ LET r == th[t]
           v == r.cur
       IN IF HasInstanceRecord(r, v) \/ Found(db, v)
          THEN OnlyTh(t, [r EXCEPT !.pc = "luv_next"])
          ELSE IF v \in r.valid
               THEN OnlyTh(t, [r EXCEPT !.unknown = @ \cup {v}, !.pc = "luv_next"])
               ELSE OnlyTh(t, ScanFails(r))

\* detectUnknownInstanceVolume (backend.go:6610): the instance record, the
\* volume record, and for a volume with neither the checks of its backup file.
detectUnknownInstanceVolume(t) ==
    /\ At(t, "duiv")
    /\ LET r == th[t]
           v == r.cur
           instID == HasInstanceRecord(r, v)
           volume == Found(db, v)
       IN IF instID /\ volume THEN OnlyTh(t, [r EXCEPT !.pc = "luv_next"])
          ELSE IF instID THEN OnlyTh(t, ScanFails(r))
          ELSE IF volume THEN OnlyTh(t, ScanFails(r))
          ELSE IF v \in r.valid
               THEN OnlyTh(t, [r EXCEPT !.unknown = @ \cup {v}, !.pc = "luv_next"])
               ELSE OnlyTh(t, ScanFails(r))

\* detectUnknownCustomVolume (backend.go:6769): a custom volume with its row
\* needs no recovery.
detectUnknownCustomVolume(t) ==
    /\ At(t, "ducv")
    /\ LET r == th[t]
           v == r.cur
       IN IF Found(db, v) THEN OnlyTh(t, [r EXCEPT !.pc = "luv_next"])
          ELSE IF v \in r.valid
               THEN OnlyTh(t, [r EXCEPT !.unknown = @ \cup {v}, !.pc = "luv_next"])
               ELSE OnlyTh(t, ScanFails(r))

----------------------------------------------------------------------------
\* CheckInstanceBackupFileSnapshots (backend.go:6470) of the instance inst:
\* backup is the list of the snapshot names of backupConf.Snapshots.

\* vol.Snapshots(op): the snapshots of the instance on the storage device.
DriverSnapshots(k, parent) == {x \in SnapIds : GetSnapshotVolumeName(parent, x) \in k}

\* The names in a list of snapshots.
Names(q) == {q[i] : i \in 1..Len(q)}

RECURSIVE OnStorageDevice(_, _)
\* The snapshots of the list q that are on the storage device, in the order of q.
OnStorageDevice(q, onDev) ==
    IF q = <<>> THEN <<>>
    ELSE (IF Head(q) \in onDev THEN <<Head(q)>> ELSE <<>>) \o OnStorageDevice(Tail(q), onDev)

\* The error return: nil and the error.
CheckFails(r) == Return([r EXCEPT !.existing = <<>>, !.rest = {}], "err")

\* vol.Snapshots and the comparison of the two counts.
CheckInstanceBackupFileSnapshots_List(t) ==
    /\ At(t, "CheckInstanceBackupFileSnapshots")
    /\ LET r == th[t]
           driverSnapshots == DriverSnapshots(disk, r.inst)
       IN \E ok \in BOOLEAN :
            IF ~ok THEN OnlyTh(t, CheckFails([r EXCEPT !.fault = TRUE]))
            ELSE IF Len(r.backup) # Cardinality(driverSnapshots) /\ ~r.deleteMissing
            THEN OnlyTh(t, CheckFails(r))
            ELSE OnlyTh(t, [r EXCEPT !.sl = driverSnapshots, !.rest = driverSnapshots,
                                     !.pc = "cbs_drv"])

\* A check that passes over the snapshots that are not in the backup config.
CheckInstanceBackupFileSnapshots_DriverSkip(t) ==
    /\ At(t, "cbs_drv")
    /\ LET r == th[t] IN
       IF r.rest = {} THEN OnlyTh(t, [r EXCEPT !.pc = "cbs_conf"])
       ELSE \E x \in r.rest : OnlyTh(t, [r EXCEPT !.rest = @ \ {x}])

\* The loop over driverSnapshots: a snapshot that is not in the backup config
\* is an error, or is deleted when deleteMissing is set.
CheckInstanceBackupFileSnapshots_Driver(t) ==
    /\ At(t, "cbs_drv")
    /\ LET r == th[t] IN
       IF r.rest = {} THEN OnlyTh(t, [r EXCEPT !.pc = "cbs_conf"])
       ELSE \E x \in r.rest :
              LET r1 == [r EXCEPT !.rest = @ \ {x}]
                  inBackupFile == x \in Names(r.backup)
              IN IF inBackupFile THEN OnlyTh(t, r1)
                 ELSE IF ~r.deleteMissing THEN OnlyTh(t, CheckFails(r))
                 ELSE \E ok \in BOOLEAN :
                        IF ok THEN DiskStep(t, r1, disk \ {GetSnapshotVolumeName(r.inst, x)})
                        ELSE OnlyTh(t, CheckFails([r EXCEPT !.fault = TRUE]))

\* A check that returns every snapshot of the backup config.
CheckInstanceBackupFileSnapshots_BackupAll(t) ==
    /\ At(t, "cbs_conf")
    /\ LET r == th[t] IN
       IF ~r.deleteMissing /\ ~(Names(r.backup) \subseteq r.sl) THEN OnlyTh(t, CheckFails(r))
       ELSE OnlyTh(t, Return([r EXCEPT !.existing = r.backup], "ok"))

\* The loop over backupConf.Snapshots: a snapshot that is not in
\* driverSnapshots is an error, or is skipped when deleteMissing is set.
CheckInstanceBackupFileSnapshots_Backup(t) ==
    /\ At(t, "cbs_conf")
    /\ LET r == th[t] IN
       IF ~r.deleteMissing /\ ~(Names(r.backup) \subseteq r.sl) THEN OnlyTh(t, CheckFails(r))
       ELSE OnlyTh(t, Return([r EXCEPT !.existing = OnStorageDevice(r.backup, r.sl)], "ok"))

----------------------------------------------------------------------------
\* The ZFS utilities: the datasets of one ZFS pool, and the cleanup of the
\* datasets kept under deleted/ for the clones that still depend on them.

\* The filesystems a pool may hold at once.
MaxFs == 3

ZfsFs == 1..MaxFs

\* The snapshot names: an ordinary snapshot and the snapshot taken for a copy.
ZfsSnapNames == {"snap", "copy-"}

\* A path names filesystem f as <<f, "">> and its snapshot k as <<f, k>>.
ZfsSnaps == ZfsFs \X ZfsSnapNames

\* The value "-" of the origin property: the filesystem is no clone.
NoOrigin == <<0, "-">>

NoCleanup == [pc |-> "idle", path |-> NoOrigin, n |-> 0, failed |-> FALSE]

\* The return of a cleanup: failed stays, it records that a destroy has failed
\* in this pool.
CleanupReturn(c, err) == [NoCleanup EXCEPT !.failed = c.failed \/ err]

ZfsUnused ==
    /\ zfs = [fs |-> [f \in ZfsFs |-> "none"], origin |-> [f \in ZfsFs |-> NoOrigin], snaps |-> {}]
    /\ zc = NoCleanup

IsSnapshot(p) == p[2] # ""

HasPrefixDeleted(z, p) == z.fs[p[1]] = "deleted"

\* The clones property of a snapshot: the filesystems whose origin it is.
ClonesOf(z, p) == {f \in ZfsFs : z.fs[f] # "none" /\ z.origin[f] = p}

zfsPoolListSnapshots(z, f) == {s \in z.snaps : s[1] = f}

\* The clones that depend on a dataset: a snapshot's clones, and for a
\* filesystem the clones of its snapshots.
Dependents(z, p) ==
    IF IsSnapshot(p) THEN ClonesOf(z, p)
    ELSE UNION {ClonesOf(z, s) : s \in zfsPoolListSnapshots(z, p[1])}

\* A check that finds every dataset removable.
zfsPoolVolumeSnapshotRemovableAlways(z, p) ==
    TRUE

\* The clones property of a filesystem reads "-".
zfsPoolVolumeSnapshotRemovable(z, p) ==
    (IF IsSnapshot(p) THEN ClonesOf(z, p) ELSE {}) = {}

\* zfs destroy -r: the dataset goes, a filesystem with its snapshots.
zfsPoolVolumeDestroy(z, p) ==
    IF IsSnapshot(p) THEN [z EXCEPT !.snaps = @ \ {p}]
    ELSE [z EXCEPT !.fs[p[1]] = "none", !.origin[p[1]] = NoOrigin,
                   !.snaps = {s \in @ : s[1] # p[1]}]

\* zfs refuses to destroy a dataset that clones depend on, and may fail on
\* any other.
DestroyOutcomes(z, p) == IF Dependents(z, p) = {} THEN {"ok", "fail"} ELSE {"fail"}

ZfsStep(z, c) ==
    /\ zfs' = z
    /\ zc' = c
    /\ UNCHANGED <<db, disk, locks, running, frozen, freezeDrv, th, ctx, pipe, gerr, pool>>

\* A new filesystem takes the first free name: the names are interchangeable.
ZfsFree(z, f) == z.fs[f] = "none" /\ \A g \in 1..(f - 1) : z.fs[g] # "none"

zfsPoolVolumeCreate(f) ==
    /\ zc.pc = "idle"
    /\ ZfsFree(zfs, f)
    /\ ZfsStep([zfs EXCEPT !.fs[f] = "live"], zc)

zfsPoolVolumeSnapshotCreate(s) ==
    /\ zc.pc = "idle"
    /\ zfs.fs[s[1]] = "live"
    /\ s \notin zfs.snaps
    /\ ZfsStep([zfs EXCEPT !.snaps = @ \cup {s}], zc)

zfsPoolVolumeClone(s, f) ==
    /\ zc.pc = "idle"
    /\ s \in zfs.snaps
    /\ zfs.fs[s[1]] = "live"
    /\ ZfsFree(zfs, f)
    /\ ZfsStep([zfs EXCEPT !.fs[f] = "live", !.origin[f] = s], zc)

\* The snapshots of a volume are deleted before the volume: one that no clone
\* depends on is destroyed.
ZfsSnapshotDelete(s) ==
    /\ zc.pc = "idle"
    /\ s \in zfs.snaps
    /\ zfs.fs[s[1]] = "live"
    /\ ClonesOf(zfs, s) = {}
    /\ ZfsStep(zfsPoolVolumeDestroy(zfs, s), zc)

\* The deletion of a volume: with snapshots that clones depend on it is kept
\* under deleted/, otherwise it is destroyed and its origin is cleaned up.
ZfsVolumeDelete(f) ==
    /\ zc.pc = "idle"
    /\ zfs.fs[f] = "live"
    /\ \A s \in zfsPoolListSnapshots(zfs, f) : ClonesOf(zfs, s) # {}
    /\ IF zfsPoolListSnapshots(zfs, f) # {}
       THEN ZfsStep([zfs EXCEPT !.fs[f] = "deleted"], zc)
       ELSE ZfsStep(zfsPoolVolumeDestroy(zfs, <<f, "">>),
                    IF zfs.origin[f] # NoOrigin
                    THEN [zc EXCEPT !.pc = "clean", !.path = zfs.origin[f], !.n = 0]
                    ELSE zc)

\* zfsPoolVolumeCleanup up to the destroy it decides on.
zfsPoolVolumeCleanup_Check ==
    /\ zc.pc = "clean"
    /\ LET p == zc.path
       IN  IF HasPrefixDeleted(zfs, p)
           THEN IF zfsPoolVolumeSnapshotRemovable(zfs, p)
                THEN ZfsStep(zfs, [zc EXCEPT !.pc = "destroy"])
                ELSE ZfsStep(zfs, CleanupReturn(zc, FALSE))
           ELSE IF p[2] = "copy-"
                THEN ZfsStep(zfs, [zc EXCEPT !.pc = "destroy"])
                ELSE ZfsStep(zfs, CleanupReturn(zc, FALSE))

\* A cleanup that does not go on to the origin of a filesystem.
CleanupNextNoOrigin(z, p) ==
    IF ~HasPrefixDeleted(z, p) THEN NoOrigin
    ELSE IF IsSnapshot(p)
         THEN IF zfsPoolListSnapshots(zfsPoolVolumeDestroy(z, p), p[1]) = {}
              THEN <<p[1], "">> ELSE NoOrigin
         ELSE NoOrigin

\* The path the cleanup goes on with after destroying p: the filesystem of a
\* snapshot that was its last one, the origin of a filesystem that was a clone.
CleanupNext(z, p) ==
    IF ~HasPrefixDeleted(z, p) THEN NoOrigin
    ELSE IF IsSnapshot(p)
         THEN IF zfsPoolListSnapshots(zfsPoolVolumeDestroy(z, p), p[1]) = {}
              THEN <<p[1], "">> ELSE NoOrigin
         ELSE z.origin[p[1]]

\* zfsPoolVolumeCleanup from the destroy on: the recursive call is the last
\* statement of its branch.
zfsPoolVolumeCleanup_Destroy ==
    /\ zc.pc = "destroy"
    /\ LET p == zc.path
       IN  \E o \in DestroyOutcomes(zfs, p) \cup {"listfail"} :
             CASE o = "fail" ->
                    ZfsStep(zfs, CleanupReturn(zc, TRUE))
               [] o = "listfail" ->
                    /\ Dependents(zfs, p) = {}
                    /\ HasPrefixDeleted(zfs, p)
                    /\ IsSnapshot(p)
                    /\ ZfsStep(zfsPoolVolumeDestroy(zfs, p), CleanupReturn(zc, TRUE))
               [] OTHER ->
                    ZfsStep(zfsPoolVolumeDestroy(zfs, p),
                            IF CleanupNext(zfs, p) # NoOrigin
                            THEN [zc EXCEPT !.pc = "clean", !.path = CleanupNext(zfs, p), !.n = @ + 1]
                            ELSE CleanupReturn(zc, FALSE))

ZfsCleanupStep == zfsPoolVolumeCleanup_Check \/ zfsPoolVolumeCleanup_Destroy

----------------------------------------------------------------------------
\* The pool before the requests: instance c1 and custom volume v1 with some
\* snapshots each, and the image volume cached or not.

\* The recorded config of snapshot s: the odd ones differ from their volume's.
SnapCfg(s) == s % 2

ImageStates == {"none", "leftover", "current", "size", "block"}

ImageCfg(im) == CASE im = "size" -> SizeChanged [] im = "block" -> BlockChanged [] OTHER -> Current

\* No operation has started.
InitThreads ==
    /\ locks = [k \in LockKeys |-> "free"]
    /\ frozen = FALSE
    /\ th = [p \in Threads \cup Tasks |-> Idle]
    /\ ctx = "none"
    /\ pipe = [a2b |-> "none", b2a |-> "none"]
    /\ gerr = "none"

InitRow(n, cs, vs, im, tg) ==
    CASE n[1] \in Images ->
           IF n[2] = 0 /\ im \in {"current", "size", "block"}
           THEN [own |-> "init", cfg |-> ImageCfg(im)] ELSE NoRow
      [] n[1] \in {"c1", "v1"} /\ n[2] = 0 -> [own |-> "init", cfg |-> 0]
      [] n[1] \in {"c2", "v2"} /\ n[2] \in tg -> [own |-> "init", cfg |-> 0]
      [] n[1] = "c1" /\ n[2] \in cs -> [own |-> "init", cfg |-> SnapCfg(n[2])]
      [] n[1] = "v1" /\ n[2] \in vs -> [own |-> "init", cfg |-> SnapCfg(n[2])]
      [] OTHER -> NoRow

InitPoolWith(cs, vs, im, tg) ==
    /\ db = [n \in RowNames |-> InitRow(n, cs, vs, im, tg)]
    /\ disk = {n \in RowNames : InitRow(n, cs, vs, im, tg) # NoRow}
                \cup (IF im = "leftover" THEN {VolName("img")} ELSE {})
    /\ InitThreads

\* A pool whose targets c2 and v2 have their row without their volume
\* ("row"), or their volume without their row ("volume").
InitPoolBroken(cs, tg, only) ==
    /\ db = [n \in RowNames |->
               IF only = "volume" /\ n \in {VolName("c2"), VolName("v2")} THEN NoRow
               ELSE InitRow(n, cs, cs, "none", tg)]
    /\ disk = {n \in RowNames : InitRow(n, cs, cs, "none", tg) # NoRow
                                 /\ (only = "row" => n \notin {VolName("c2"), VolName("v2")})}
    /\ InitThreads


\* Snapshots are taken in the order of their names.
Prefixes == {1..k : k \in 0..MaxSnaps}

\* An instance that is not running is not frozen for a copy, whatever the Driver.
Init ==
    /\ \E cs \in Prefixes : InitPoolWith(cs, {}, "none", {})
    /\ running \in BOOLEAN
    /\ freezeDrv \in (IF running THEN BOOLEAN ELSE {TRUE})
    /\ pool = ReadyPool
    /\ ZfsUnused

InitVolume ==
    /\ \E vs \in Prefixes : InitPoolWith({}, vs, "none", {})
    /\ running = FALSE
    /\ freezeDrv = TRUE
    /\ pool = ReadyPool
    /\ ZfsUnused

InitImage ==
    /\ \E im \in ImageStates : InitPoolWith({}, {}, im, {})
    /\ running = FALSE
    /\ freezeDrv = TRUE
    /\ pool = ReadyPool
    /\ ZfsUnused

\* One kind of volume at a time is in another initial state than the empty one.
InitCreate ==
    /\ \E cs \in Prefixes, vs \in Prefixes, im \in ImageStates :
         /\ Cardinality({x \in {cs, vs} : x # {}}) + (IF im = "none" THEN 0 ELSE 1) <= 1
         /\ InitPoolWith(cs, vs, im, {})
    /\ running = FALSE
    /\ freezeDrv = TRUE
    /\ pool = ReadyPool
    /\ ZfsUnused

\* Instance volumes.
Next ==
    \E t \in Threads :
        \/ Take(t, InstanceRequests)
        \/ RetStep(t)
        \/ RevertStep(t)
        \/ DeleteInstance_Snaps(t)
        \/ DeleteInstance_Vol(t)
        \/ DeleteInstance_DB(t)
        \/ CreateInstance_DB(t)
        \/ CreateInstance_Drv(t)
        \/ CreateInstanceSnapshot_Get(t)
        \/ CreateInstanceSnapshot_DB(t)
        \/ CreateInstanceSnapshot_Freeze(t)
        \/ CreateInstanceSnapshot_Lock(t)
        \/ CreateInstanceSnapshot_Drv(t)
        \/ DeleteInstanceSnapshot_Vol(t)
        \/ DeleteInstanceSnapshot_DB(t)
        \/ CreateInstanceFromCopy_Config(t)
        \/ CreateInstanceFromCopy_Freeze(t)
        \/ CreateInstanceFromCopy_DB(t)
        \/ CreateInstanceFromCopy_SnapDB(t)
        \/ CreateInstanceFromCopy_Drv(t)
        \/ RenameInstance_Get(t)
        \/ RenameInstance_SnapDB(t)
        \/ RenameInstance_ParentDB(t)
        \/ RenameInstance_Drv(t)
        \/ RestoreInstanceSnapshot_Get(t)
        \/ RestoreInstanceSnapshot_Update(t)
        \/ RestoreInstanceSnapshot_Drv(t)
        \/ RestoreInstanceSnapshot_Delete(t)
        \/ RestoreInstanceSnapshot_Retry(t)

Spec == Init /\ [][Next]_vars

\* The instance operations on a pool of any status, with one stopped instance.
InitStatus ==
    /\ InitPoolWith({1}, {}, "none", {})
    /\ running = FALSE
    /\ freezeDrv = TRUE
    /\ pool \in [status : {"Pending", "Created", "Errored"}, local : {"Created", "Unavailable"},
               path : {TRUE}, mounted : {TRUE}]
    /\ ZfsUnused

SpecStatus == InitStatus /\ [][Next]_vars

\* Custom volumes.
NextVolume ==
    \E t \in Threads :
        \/ Take(t, VolumeRequests)
        \/ RetStep(t)
        \/ RevertStep(t)
        \/ CreateCustomVolume_DB(t)
        \/ CreateCustomVolume_Drv(t)
        \/ CreateCustomVolumeSnapshot_Get(t)
        \/ CreateCustomVolumeSnapshot_DB(t)
        \/ CreateCustomVolumeSnapshot_Lock(t)
        \/ CreateCustomVolumeSnapshot_Drv(t)
        \/ CreateCustomVolumeFromCopy_Config(t)
        \/ CreateCustomVolumeFromCopy_DB(t)
        \/ CreateCustomVolumeFromCopy_SnapDB(t)
        \/ CreateCustomVolumeFromCopy_Drv(t)
        \/ DeleteCustomVolumeSnapshot_Get(t)
        \/ DeleteCustomVolumeSnapshot_Vol(t)
        \/ DeleteCustomVolumeSnapshot_DB(t)
        \/ DeleteCustomVolume_Snaps(t)
        \/ DeleteCustomVolume_Snap(t)
        \/ DeleteCustomVolume_Get(t)
        \/ DeleteCustomVolume_Vol(t)
        \/ DeleteCustomVolume_DB(t)

SpecVolume == InitVolume /\ [][NextVolume]_vars

\* Image volumes.
NextImage ==
    \E t \in Threads :
        \/ Take(t, ImageRequests)
        \/ RetStep(t)
        \/ RevertStep(t)
        \/ DeleteImage_Lock(t)
        \/ DeleteImage_Get(t)
        \/ DeleteImage_Vol(t)
        \/ DeleteImage_DB(t)
        \/ EnsureImage_Lock(t)
        \/ EnsureImage_Get(t)
        \/ EnsureImage_Regen(t)
        \/ EnsureImage_Has(t)
        \/ EnsureImage_Quota(t)
        \/ EnsureImage_Resized(t)
        \/ EnsureImage_DB(t)
        \/ EnsureImage_Drv(t)

SpecImage == InitImage /\ [][NextImage]_vars

\* EnsureImage and DeleteImage of two images (two fingerprints).
ImageLockRequests ==
    {Request(op, i, i, 0, FALSE, FALSE) : op \in {"EnsureImage", "DeleteImage"}, i \in Images}

NextImageLocks ==
    \E t \in Threads :
        \/ Take(t, ImageLockRequests)
        \/ RetStep(t)
        \/ RevertStep(t)
        \/ DeleteImage_Lock(t)
        \/ DeleteImage_Get(t)
        \/ DeleteImage_Vol(t)
        \/ DeleteImage_DB(t)
        \/ EnsureImage_Lock(t)
        \/ EnsureImage_Get(t)
        \/ EnsureImage_Regen(t)
        \/ EnsureImage_Has(t)
        \/ EnsureImage_Quota(t)
        \/ EnsureImage_Resized(t)
        \/ EnsureImage_DB(t)
        \/ EnsureImage_Drv(t)

SpecImageLocks == InitImage /\ [][NextImageLocks]_vars

\* The create-style operations of every kind of volume.
CreateStep(t) ==
    \/ Take(t, CreateRequests)
    \/ CreateInstanceFromBackup_Drv(t)
    \/ CreateInstanceFromBackup_Link(t)
    \/ CreateInstanceFromBackup_HookDB(t)
    \/ CreateInstanceFromBackup_HookSnapDB(t)
    \/ CreateInstanceFromBackup_HookEnd(t)
    \/ RetStep(t)
    \/ RevertStep(t)
    \/ DeleteInstance_Snaps(t)
    \/ DeleteInstance_Vol(t)
    \/ DeleteInstance_DB(t)
    \/ CreateInstance_DB(t)
    \/ CreateInstance_Drv(t)
    \/ CreateInstanceSnapshot_Get(t)
    \/ CreateInstanceSnapshot_DB(t)
    \/ CreateInstanceSnapshot_Freeze(t)
    \/ CreateInstanceSnapshot_Lock(t)
    \/ CreateInstanceSnapshot_Drv(t)
    \/ CreateInstanceFromCopy_Config(t)
    \/ CreateInstanceFromCopy_Freeze(t)
    \/ CreateInstanceFromCopy_DB(t)
    \/ CreateInstanceFromCopy_SnapDB(t)
    \/ CreateInstanceFromCopy_Drv(t)
    \/ CreateCustomVolume_DB(t)
    \/ CreateCustomVolume_Drv(t)
    \/ CreateCustomVolumeSnapshot_Get(t)
    \/ CreateCustomVolumeSnapshot_DB(t)
    \/ CreateCustomVolumeSnapshot_Lock(t)
    \/ CreateCustomVolumeSnapshot_Drv(t)
    \/ CreateCustomVolumeFromCopy_Config(t)
    \/ CreateCustomVolumeFromCopy_DB(t)
    \/ CreateCustomVolumeFromCopy_SnapDB(t)
    \/ CreateCustomVolumeFromCopy_Drv(t)
    \/ DeleteImage_Lock(t)
    \/ DeleteImage_Get(t)
    \/ DeleteImage_Vol(t)
    \/ DeleteImage_DB(t)
    \/ EnsureImage_Lock(t)
    \/ EnsureImage_Get(t)
    \/ EnsureImage_Regen(t)
    \/ EnsureImage_Has(t)
    \/ EnsureImage_Quota(t)
    \/ EnsureImage_Resized(t)
    \/ EnsureImage_DB(t)
    \/ EnsureImage_Drv(t)

NextCreate == \E t \in Threads : CreateStep(t)

SpecCreate == InitCreate /\ [][NextCreate]_vars

\* The delete-style operations.
DeleteOps ==
    {"DeleteInstance", "DeleteInstanceSnapshot", "DeleteCustomVolume",
     "DeleteCustomVolumeSnapshot", "DeleteImage"}

NextDelete ==
    \E t \in Threads :
        \/ Take(t, {q \in InstanceRequests \cup VolumeRequests \cup ImageRequests : q.op \in DeleteOps})
        \/ RetStep(t)
        \/ DeleteInstance_Snaps(t)
        \/ DeleteInstance_Vol(t)
        \/ DeleteInstance_DB(t)
        \/ DeleteInstanceSnapshot_Vol(t)
        \/ DeleteInstanceSnapshot_DB(t)
        \/ DeleteCustomVolumeSnapshot_Get(t)
        \/ DeleteCustomVolumeSnapshot_Vol(t)
        \/ DeleteCustomVolumeSnapshot_DB(t)
        \/ DeleteCustomVolume_Snaps(t)
        \/ DeleteCustomVolume_Snap(t)
        \/ DeleteCustomVolume_Get(t)
        \/ DeleteCustomVolume_Vol(t)
        \/ DeleteCustomVolume_DB(t)
        \/ DeleteImage_Lock(t)
        \/ DeleteImage_Get(t)
        \/ DeleteImage_Vol(t)
        \/ DeleteImage_DB(t)

SpecDelete == InitCreate /\ [][NextDelete]_vars

\* Restores of instance c1 and of custom volume v1 from their snapshots.
RestoreRequests ==
    {Request(op[1], op[2], op[2], s, FALSE, FALSE) :
       op \in {<<"RestoreInstanceSnapshot", "c1">>, <<"RestoreCustomVolume", "v1">>}, s \in SnapIds}

InitRestore ==
    /\ \E cs \in Prefixes, vs \in Prefixes : InitPoolWith(cs, vs, "none", {})
    /\ running = FALSE
    /\ freezeDrv = TRUE
    /\ pool = ReadyPool
    /\ ZfsUnused

NextRestore ==
    \E t \in Threads :
        \/ Take(t, RestoreRequests)
        \/ RetStep(t)
        \/ RevertStep(t)
        \/ RestoreInstanceSnapshot_Get(t)
        \/ RestoreInstanceSnapshot_Update(t)
        \/ RestoreInstanceSnapshot_Drv(t)
        \/ RestoreInstanceSnapshot_Delete(t)
        \/ RestoreInstanceSnapshot_Retry(t)
        \/ RestoreCustomVolume_Get(t)
        \/ RestoreCustomVolume_Drv(t)
        \/ RestoreCustomVolume_Delete(t)
        \/ RestoreCustomVolume_Retry(t)
        \/ DeleteInstanceSnapshot_Vol(t)
        \/ DeleteInstanceSnapshot_DB(t)
        \/ DeleteCustomVolumeSnapshot_Get(t)
        \/ DeleteCustomVolumeSnapshot_Vol(t)
        \/ DeleteCustomVolumeSnapshot_DB(t)

SpecRestore == InitRestore /\ [][NextRestore]_vars

\* The create-style operations called one at a time.
SpecCreateAlone == InitCreate /\ [][CreateStep("t1")]_vars

----------------------------------------------------------------------------
\* Cross-pool transfers: one caller, its sender and its receiver.
MigProcs == {"t1"} \cup Tasks

\* The migration types the source pool offers, in its order of preference,
\* and those the target pool supports: with a common type, and without.
Negotiations ==
    {[offer |-> <<"zfs", "rsync">>, ours |-> {"rsync"}], [offer |-> <<"zfs">>, ours |-> {"rsync"}]}

MigRequests ==
    {[Request(op, "c2", "c1", 0, b, FALSE) EXCEPT !.cross = TRUE, !.offer = g.offer, !.ours = g.ours] :
       op \in {"CreateInstanceFromCopy", "RefreshInstance"}, b \in BOOLEAN, g \in Negotiations}
      \cup {[Request(op, "v2", "v1", 0, b, FALSE) EXCEPT !.cross = TRUE, !.offer = g.offer, !.ours = g.ours] :
              op \in {"CreateCustomVolumeFromCopy", "RefreshCustomVolume"}, b \in BOOLEAN,
              g \in Negotiations}
      \cup {Request("RefreshCustomVolume", "v2", "v1", 0, b, FALSE) : b \in BOOLEAN}

\* The target of a refresh is there, with no snapshot or with the last one.
Targets == {{}, {0}, {0, MaxSnaps}}

InitMig ==
    /\ \E cs \in Prefixes, tg \in Targets : InitPoolWith(cs, cs, "none", tg)
    /\ running \in BOOLEAN
    /\ freezeDrv \in (IF running THEN BOOLEAN ELSE {TRUE})
    /\ pool = ReadyPool
    /\ ZfsUnused

NextMig ==
    \E t \in MigProcs :
        \/ t \in Threads /\ Take(t, MigRequests)
        \/ RetStep(t)
        \/ RevertStep(t)
        \/ DeleteInstance_Snaps(t)
        \/ DeleteInstance_Vol(t)
        \/ DeleteInstance_DB(t)
        \/ DeleteCustomVolumeSnapshot_Get(t)
        \/ DeleteCustomVolumeSnapshot_Vol(t)
        \/ DeleteCustomVolumeSnapshot_DB(t)
        \/ CreateInstanceFromCopy_Config(t)
        \/ CreateInstanceFromCopy_Freeze(t)
        \/ CreateInstanceFromCopy_Cross(t)
        \/ CreateInstanceFromCopy_Wait(t)
        \/ CreateCustomVolumeFromCopy_Config(t)
        \/ CreateCustomVolumeFromCopy_Cross(t)
        \/ CreateCustomVolumeFromCopy_Wait(t)
        \/ RefreshInstance_Get(t)
        \/ RefreshInstance_Freeze(t)
        \/ RefreshInstance_Cross(t)
        \/ RefreshInstance_Wait(t)
        \/ RefreshCustomVolume_Get(t)
        \/ RefreshCustomVolume_Delete(t)
        \/ RefreshCustomVolume_SnapDB(t)
        \/ RefreshCustomVolume_Drv(t)
        \/ RefreshCustomVolume_Again(t)
        \/ RefreshCustomVolume_Cross(t)
        \/ RefreshCustomVolume_Wait(t)
        \/ MigrateInstance_Get(t)
        \/ MigrateCustomVolume_Args(t)
        \/ migrationIndexHeaderSend_Write(t)
        \/ migrationIndexHeaderSend_Written(t)
        \/ migrationIndexHeaderSend_Read(t)
        \/ MigrateInstance_Freeze(t)
        \/ MigrateVolume_Write(t)
        \/ MigrateVolume_Written(t)
        \/ MigrateVolume_End(t)
        \/ CreateInstanceFromMigration_Start(t)
        \/ CreateCustomVolumeFromMigration_Check(t)
        \/ migrationIndexHeaderReceive_Read(t)
        \/ migrationIndexHeaderReceive_Write(t)
        \/ migrationIndexHeaderReceive_Written(t)
        \/ CreateInstanceFromMigration_DB(t)
        \/ CreateInstanceFromMigration_SnapDB(t)
        \/ CreateInstanceFromMigration_Drv(t)
        \/ CreateCustomVolumeFromMigration_DB(t)
        \/ CreateCustomVolumeFromMigration_SnapDB(t)
        \/ CreateCustomVolumeFromMigration_Drv(t)

SpecMig == InitMig /\ [][NextMig]_vars

\* The transfers into a pool whose targets may be inconsistent: a row without
\* its volume or a volume without its row.
InitMigBroken ==
    \/ InitMig
    \/ /\ \E cs \in Prefixes, tg \in Targets \ {{}}, only \in {"row", "volume"} :
             InitPoolBroken(cs, tg, only)
       /\ running = FALSE
       /\ freezeDrv = TRUE
       /\ pool = ReadyPool
       /\ ZfsUnused

SpecMigBroken == InitMigBroken /\ [][NextMig]_vars

\* The tasks are goroutines: one that can run does run.
SpecMigFair == SpecMig /\ WF_vars(NextMig)

\* Mount and Delete of a pool, one call after the other: unavailablePools is
\* empty when the process starts, and the pool is mounted or not.
PoolRequests ==
    {Request("Mount", "c1", "c1", 0, FALSE, FALSE),
     Request("Delete", "c1", "c1", 0, FALSE, FALSE)}

InitPoolLife ==
    /\ \E im \in {"none", "leftover"} : InitPoolWith({}, {}, im, {})
    /\ running = FALSE
    /\ freezeDrv = TRUE
    /\ pool \in {p \in [status : {"Created"}, local : {"Created"}, path : BOOLEAN, mounted : BOOLEAN] :
                   p.mounted => p.path}
    /\ ZfsUnused

\* A call starts when no other call is in progress.
PoolTake(t) ==
    /\ \A u \in Threads \ {t} : th[u].pc \in {"idle", "done"}
    /\ Take(t, PoolRequests)

NextPoolLife ==
    \E t \in Threads :
        \/ PoolTake(t)
        \/ RetStep(t)
        \/ RevertStep(t)
        \/ Mount_Dir(t)
        \/ Mount_Drv(t)
        \/ Mount_Structure(t)
        \/ Delete_Warnings(t)
        \/ Delete_Drv(t)
        \/ Delete_Path(t)

SpecPoolLife == InitPoolLife /\ [][NextPoolLife]_vars

\* Snapshots of several volumes at once: the instances c1 and c2 and the custom
\* volumes v1 and v2 of the default project, and c1 and v1 of project p2.
SnapshotParents == [CreateInstanceSnapshot |-> {"c1", "c2", "p2_c1"},
                    CreateCustomVolumeSnapshot |-> {"v1", "v2", "p2_v1"}]

SnapshotRequests ==
    {Request(op, p, p, 1, FALSE, FALSE) :
       op \in {"CreateInstanceSnapshot"}, p \in SnapshotParents.CreateInstanceSnapshot}
      \cup {Request(op, p, p, 1, FALSE, FALSE) :
               op \in {"CreateCustomVolumeSnapshot"}, p \in SnapshotParents.CreateCustomVolumeSnapshot}

InitSnapshots ==
    /\ db = [n \in RowNames |-> IF n[2] = 0 /\ n[1] \in Parents
                                 THEN [own |-> "init", cfg |-> 0] ELSE NoRow]
    /\ disk = {VolName(p) : p \in Parents}
    /\ InitThreads
    /\ running = FALSE
    /\ freezeDrv = TRUE
    /\ pool = ReadyPool
    /\ ZfsUnused

NextSnapshots ==
    \E t \in Threads :
        \/ Take(t, SnapshotRequests)
        \/ RetStep(t)
        \/ RevertStep(t)
        \/ CreateInstanceSnapshot_Get(t)
        \/ CreateInstanceSnapshot_DB(t)
        \/ CreateInstanceSnapshot_Freeze(t)
        \/ CreateInstanceSnapshot_Lock(t)
        \/ CreateInstanceSnapshot_Drv(t)
        \/ CreateCustomVolumeSnapshot_Get(t)
        \/ CreateCustomVolumeSnapshot_DB(t)
        \/ CreateCustomVolumeSnapshot_Lock(t)
        \/ CreateCustomVolumeSnapshot_Drv(t)

SpecSnapshots == InitSnapshots /\ [][NextSnapshots]_vars

\* The caller of the operation of t gives up: its deadline passes or it
\* cancels its context.  No operation takes a context from its caller.
CallerCancel(t) ==
    /\ th[t].pc \notin {"idle", "done"}
    /\ ~th[t].cancelled
    /\ OnlyTh(t, [th[t] EXCEPT !.cancelled = TRUE])

\* The operations that take an advisory lock, with callers that may give up.
InitCancel == InitSnapshots \/ InitImage

NextCancel ==
    \/ NextSnapshots
    \/ NextImage
    \/ \E t \in Threads : CallerCancel(t)

SpecCancel == InitCancel /\ [][NextCancel]_vars

\* The recovery scan of a pool that holds three instance volumes and a custom
\* volume, each with its row or not.
ScannedVolumes == {VolName(p) : p \in {"c1", "c2", "p2_c1", "v1"}}

ScanRequests ==
    {[Request("ListUnknownVolumes", "c1", "c1", 0, FALSE, FALSE) EXCEPT !.instDB = i, !.valid = ok] :
       i \in SUBSET {"c1", "c2", "p2_c1"}, ok \in SUBSET ScannedVolumes}

InitScan ==
    /\ \E rows \in SUBSET ScannedVolumes :
         db = [n \in RowNames |-> IF n \in rows THEN [own |-> "init", cfg |-> 0] ELSE NoRow]
    /\ disk = ScannedVolumes
    /\ InitThreads
    /\ running = FALSE
    /\ freezeDrv = TRUE
    /\ pool = ReadyPool
    /\ ZfsUnused

\* One scan runs.
ScanTake(t) == t = "t1" /\ Take(t, ScanRequests)

NextScan ==
    \E t \in Threads :
        \/ ScanTake(t)
        \/ RetStep(t)
        \/ ListUnknownVolumes_List(t)
        \/ ListUnknownVolumes_Next(t)
        \/ detectUnknownInstanceVolume(t)
        \/ detectUnknownCustomVolume(t)

SpecScan == InitScan /\ [][NextScan]_vars

\* The check of a backup config against an instance whose rows are lost: any
\* of its snapshots are on the storage device, and the backup config lists
\* any names, some of them twice.
\* The names a backup config may list: those of the snapshots, and one more
\* that no snapshot on the storage device has.
BackupNames == 1..(MaxSnaps + 1)

BackupLists == UNION {[1..k -> BackupNames] : k \in 0..MaxSnaps}

CheckRequests ==
    {[Request("CheckInstanceBackupFileSnapshots", "c1", "c1", 0, FALSE, FALSE)
        EXCEPT !.backup = q, !.deleteMissing = dm] : q \in BackupLists, dm \in BOOLEAN}

InitCheck ==
    /\ db = [n \in RowNames |-> NoRow]
    /\ \E onDev \in SUBSET SnapIds :
         disk = {VolName("c1")} \cup {GetSnapshotVolumeName("c1", x) : x \in onDev}
    /\ InitThreads
    /\ running = FALSE
    /\ freezeDrv = TRUE
    /\ pool = ReadyPool
    /\ ZfsUnused

\* One check runs.
CheckTake(t) == t = "t1" /\ Take(t, CheckRequests)

NextCheck ==
    \E t \in Threads :
        \/ CheckTake(t)
        \/ RetStep(t)
        \/ CheckInstanceBackupFileSnapshots_List(t)
        \/ CheckInstanceBackupFileSnapshots_Driver(t)
        \/ CheckInstanceBackupFileSnapshots_Backup(t)

SpecCheck == InitCheck /\ [][NextCheck]_vars

\* CreateInstanceFromMigration (backend.go:2049): the loop over args.Snapshots
\* that takes the creation date and the config of the i-th snapshot from the
\* index header.  nargs is len(args.Snapshots); hdr holds
\* len(srcInfo.Config.Snapshots) and len(srcInfo.Config.VolumeSnapshots); idx
\* is the loop index i, from 0.

\* len(list) >= i-1, the condition under which the code reads list[i].
IndexGuard(len, i) == len >= i - 1

\* list[i] of a list of len elements is a run-time panic unless i < len.
InRange(len, i) == i < len

\* The read of list[i] under the code's condition, for a list of len elements.
HeaderRead(t, r, len, next) ==
    IF IndexGuard(len, r.idx) /\ ~InRange(len, r.idx)
    THEN OnlyTh(t, [r EXCEPT !.oob = TRUE, !.pc = "panic"])
    ELSE OnlyTh(t, next)

\* srcInfo.Config.Snapshots[i]
CreateInstanceFromMigration_SnapshotInfo(t) ==
    /\ At(t, "cim_info")
    /\ LET r == th[t] IN
       IF r.idx >= r.nargs THEN OnlyTh(t, Return(r, "ok"))
       ELSE HeaderRead(t, r, r.hdr[1], [r EXCEPT !.pc = "cim_volinfo"])

\* srcInfo.Config.VolumeSnapshots[i], then the next snapshot.
CreateInstanceFromMigration_VolumeSnapshotInfo(t) ==
    /\ At(t, "cim_volinfo")
    /\ LET r == th[t] IN
       HeaderRead(t, r, r.hdr[2], [r EXCEPT !.idx = @ + 1, !.pc = "cim_info"])

\* The lengths of args.Snapshots and of the header's lists.
HeaderLens == 0..(MaxSnaps + 1)

HeaderRequests ==
    {[Request("CreateInstanceFromMigration", "c2", "c1", 0, TRUE, FALSE) EXCEPT
        !.pc = "cim_info", !.nargs = h[1], !.hdr = <<h[2], h[3]>>] :
     h \in HeaderLens \X HeaderLens \X HeaderLens}

\* One receiver runs.
HeaderTake(t) == t = "t1" /\ Take(t, HeaderRequests)

NextHeader ==
    \E t \in Threads :
        \/ HeaderTake(t)
        \/ RetStep(t)
        \/ CreateInstanceFromMigration_SnapshotInfo(t)
        \/ CreateInstanceFromMigration_VolumeSnapshotInfo(t)

\* The target pool before the transfer.
InitHeader ==
    /\ \E cs \in Prefixes : InitPoolWith(cs, {}, "none", {})
    /\ running = FALSE
    /\ freezeDrv = TRUE
    /\ pool = ReadyPool
    /\ ZfsUnused

SpecHeader == InitHeader /\ [][NextHeader]_vars

\* A ZFS pool, empty at first: volumes are created, snapshotted, cloned and
\* deleted, and each deletion of a clone cleans up its origin.
InitZfs ==
    /\ InitPoolWith({}, {}, "none", {})
    /\ running = FALSE
    /\ freezeDrv = TRUE
    /\ pool = ReadyPool
    /\ ZfsUnused

NextZfs ==
    \/ \E f \in ZfsFs : zfsPoolVolumeCreate(f)
    \/ \E s \in ZfsSnaps : zfsPoolVolumeSnapshotCreate(s)
    \/ \E s \in ZfsSnaps, f \in ZfsFs : zfsPoolVolumeClone(s, f)
    \/ \E s \in ZfsSnaps : ZfsSnapshotDelete(s)
    \/ \E f \in ZfsFs : ZfsVolumeDelete(f)
    \/ zfsPoolVolumeCleanup_Check
    \/ zfsPoolVolumeCleanup_Destroy

SpecZfs == InitZfs /\ [][NextZfs]_vars

----------------------------------------------------------------------------
\* Properties.

\* The rows a create-style request inserts.
CreatedNames(r) ==
    CASE r.op \in {"CreateInstanceSnapshot", "CreateCustomVolumeSnapshot"} ->
           {GetSnapshotVolumeName(r.src, r.snap)}
      [] r.op \in {"CreateInstanceFromCopy", "CreateCustomVolumeFromCopy", "CreateInstanceFromBackup"} ->
           VolAndSnaps(r.inst, r.sl)
      [] OTHER -> {VolName(r.inst)}

\* C1: when a create-style operation returns an error after the Driver's
\* physical step failed, the store holds no row under the volume name or a
\* snapshot name it inserted: none of its own and none from before it, only
\* one that a concurrent operation has inserted since under the same name.
RollbackComplete ==
    \A t \in Threads :
        (Returned(t) /\ th[t].op \in CreateOps /\ th[t].res = "err" /\ th[t].physFail)
            => \A n \in CreatedNames(th[t]) : db[n].own \in {"none"} \cup (Threads \ {t})

\* A copy with snapshots whose Driver call failed has returned its error.
RollbackCompleteWitness ==
    \E t \in Threads :
        /\ Returned(t) /\ th[t].op = "CreateInstanceFromCopy" /\ th[t].physFail
        /\ th[t].res = "err" /\ th[t].sl # {} /\ th[t].undone

\* C3: at most one CreateVolumeSnapshot of the Driver is in progress for an
\* instance: a second CreateInstanceSnapshot of it waits for the first one's.
SnapshotSerialized ==
    \A t, u \in Threads :
        (t # u /\ At(t, "cis_drv") /\ At(u, "cis_drv")) => th[t].src # th[u].src

\* One CreateInstanceSnapshot is in the Driver, a second one of the same instance
\* waits for the lock.
SnapshotSerializedWitness ==
    \E t, u \in Threads :
        /\ At(t, "cis_drv") /\ At(u, "cis_lock") /\ th[t].src = th[u].src
        /\ locks[OperationLockName("CreateInstanceSnapshot", NameInProject(th[u].src))] = t

\* The two threads ran EnsureImage of an image that had no row when they were
\* called, and no call of the Driver or of the store failed.
TwoEnsureImage ==
    \A t \in Threads :
        Returned(t) /\ th[t].op = "EnsureImage" /\ ~th[t].had /\ ~th[t].fault

\* C4: two concurrent EnsureImage of an image that is not cached call the
\* Driver's CreateVolume once in total, and both return success.
EnsureImageOnce ==
    TwoEnsureImage =>
        /\ th["t1"].nCreate + th["t2"].nCreate = 1
        /\ \A t \in Threads : th[t].res = "ok"

\* Both EnsureImage have returned, the second after waiting for the first one's lock.
EnsureImageOnceWitness ==
    /\ TwoEnsureImage
    /\ \E t \in Threads : th[t].nCreate = 1 /\ db[VolName("img")].own = t
    /\ VolName("img") \in disk

\* C5: an operation that returns success has run none of its compensating actions.
SuccessRunsNoUndo ==
    \A t \in Threads : (Returned(t) /\ th[t].res = "ok") => ~th[t].undone

\* C9: every snapshot row has the row of its parent.
SnapshotHasParent ==
    \A p \in Parents, s \in SnapIds : Found(db, GetSnapshotVolumeName(p, s)) => Found(db, VolName(p))

\* The Driver's snapshot or copy call of thread t is in progress.
InDriverCall(t) == th[t].pc \in {"cis_drv", "cic_drv"}

\* C10: while a Driver snapshot or copy call runs against a running instance,
\* on a driver with RunningCopyFreeze and without allow-inconsistent, the
\* instance is frozen.
FrozenDuringDriverCall ==
    \A t \in Threads :
        (InDriverCall(t) /\ running /\ freezeDrv /\ ~th[t].allowInc) => frozen

\* C2: in a cross-pool transfer, once a task has returned an error the other
\* task returns too and so does the calling operation: no task stays blocked
\* on the pipe.
TaskErrorEndsTransfer ==
    \A p \in Tasks :
        (Returned(p) /\ th[p].res = "err") ~> (\A q \in MigProcs : Returned(q))

\* The receiver's Driver failed, the sender returned on the cancellation, the
\* calling operation returned.
TaskErrorEndsTransferWitness ==
    /\ \A q \in MigProcs : Returned(q)
    /\ th["rcv"].res = "err" /\ th["rcv"].fault
    /\ th["snd"].res = "err" /\ ~th["snd"].fault
    /\ th["t1"].res = "err"

\* The rows and the volumes of the target of a transfer.
TargetLeft(r) == {n \in VolAndSnaps(r.inst, SnapIds) : Found(db, n) \/ n \in disk}

\* C6: a cross-pool CreateCustomVolumeFromCopy that returns an error leaves no
\* row and no volume of the new volume or of its snapshots.
CustomCopyPurged ==
    \A t \in Threads :
        (Returned(t) /\ th[t].op = "CreateCustomVolumeFromCopy" /\ th[t].cross
           /\ th[t].res = "err" /\ ~th[t].had)
            => TargetLeft(th[t]) = {}

\* C7: a cross-pool CreateInstanceFromCopy with snapshots that returns an error
\* after the receiver inserted the parent and snapshot rows and created the
\* volume leaves no row and no volume of the target, when no call of the
\* rollback itself was made to fail.
InstanceCopyPurged ==
    \A t \in Threads :
        (Returned(t) /\ th[t].op = "CreateInstanceFromCopy" /\ th[t].cross /\ th[t].snaps
           /\ th[t].sl # {} /\ th["rcv"].res = "ok" /\ th[t].res = "err" /\ ~th[t].fault)
            => TargetLeft(th[t]) = {}

\* C8: when the sender and the receiver both return errors, the calling
\* operation's error carries both.
BothErrorsReturned ==
    \A t \in Threads :
        (Returned(t) /\ th[t].cross /\ \A p \in Tasks : Returned(p) /\ th[p].res = "err")
            => th[t].errs = Tasks

\* C11: no row of the store and no volume of the pool changes unless the
\* pool's global status is created and its status on this server is not
\* unavailable.
ReadyBeforeSideEffect ==
    [][(db' # db \/ disk' # disk) => (pool.status = "Created" /\ pool.local # "Unavailable")]_vars

\* C12: a create-style operation adds a volume to the pool only under a name
\* whose row is in the store.
RowBeforeVolume ==
    [][\A n \in disk' \ disk : Found(db, n)]_vars

\* C12, amended: a create-style operation other than CreateInstanceFromBackup
\* adds a volume to the pool only under a name whose row is in the store.
RowBeforeVolumeNoBackup ==
    [][\A t \in Threads :
          (th'[t] # th[t] /\ th[t].op # "CreateInstanceFromBackup")
             => \A n \in disk' \ disk : Found(db, n)]_vars

RowBeforeVolumeWitness ==
    \E t \in Threads :
        /\ Returned(t) /\ th[t].res = "ok"
        /\ th[t].op \in CreateOps \ {"CreateInstanceFromBackup"}
        /\ ~th[t].had
        /\ CreatedNames(th[t]) \subseteq disk

\* C13: a delete-style operation removes a row only once the volume of that
\* name is gone from the pool, and removes no row after the Driver's
\* deletion has failed in it.
VolumeGoneBeforeRow ==
    [][\A t \in Threads :
          (th'[t] # th[t] /\ th[t].op \in DeleteOps)
             => \A n \in RowNames :
                   (Found(db, n) /\ ~Found(db', n)) => (n \notin disk /\ ~th[t].fault)]_vars

VolumeGoneBeforeRowWitness ==
    \E t, u \in Threads :
        /\ Returned(t) /\ th[t].op \in DeleteOps /\ th[t].res = "err" /\ th[t].fault
        /\ Found(db, GetSnapshotVolumeName(th[t].inst, th[t].snap))
        /\ Returned(u) /\ th[u].op \in DeleteOps /\ th[u].res = "ok"
        /\ ~Found(db, GetSnapshotVolumeName(th[u].inst, th[u].snap))
        /\ GetSnapshotVolumeName(th[u].inst, th[u].snap) \notin disk

\* C14: during and after a second RefreshCustomVolume with snapshots that
\* follows a successful first one, no snapshot row of the target is inserted
\* or deleted, no snapshot volume of the target is created or deleted, and
\* the list of the snapshots to transfer is empty.
SecondRefreshChangesNothing ==
    [][\A t \in Threads :
          (th'[t].second /\ th[t].op = "RefreshCustomVolume" /\ th[t].snaps)
             => /\ VolumeDBSnapshotsGet(db', th[t].inst) = VolumeDBSnapshotsGet(db, th[t].inst)
                /\ disk' \cap VolAndSnaps(th[t].inst, SnapIds) = disk \cap VolAndSnaps(th[t].inst, SnapIds)
                /\ th'[t].sl = {}
                /\ th'[t].pc # "rcv_snap"]_vars

SecondRefreshWitness ==
    \E t \in Threads :
        /\ Returned(t) /\ th[t].second /\ th[t].snaps /\ th[t].res = "ok"
        /\ VolumeDBSnapshotsGet(db, th[t].inst) = VolumeDBSnapshotsGet(db, th[t].src)
        /\ VolumeDBSnapshotsGet(db, th[t].inst) # {}
        /\ th[t].cross

\* C15: after a successful cross-pool RefreshCustomVolume with snapshots,
\* the target has no snapshot, as a row or as a volume, that the source
\* does not have.
RefreshDropsTargetOnly ==
    \A t \in Threads :
        (Returned(t) /\ th[t].op = "RefreshCustomVolume" /\ th[t].cross /\ th[t].snaps
           /\ th[t].res = "ok")
          => \A s \in SnapIds \ VolumeDBSnapshotsGet(db, th[t].src) :
                /\ ~Found(db, GetSnapshotVolumeName(th[t].inst, s))
                /\ GetSnapshotVolumeName(th[t].inst, s) \notin disk

RefreshDropsTargetOnlyWitness ==
    \E t \in Threads :
        /\ Returned(t) /\ th[t].op = "RefreshCustomVolume" /\ th[t].cross /\ th[t].snaps
        /\ th[t].res = "ok" /\ ~th[t].second
        /\ th[t].dsnap[1] = th[t].inst /\ th[t].dsnap[2] \in SnapIds
        /\ ~Found(db, GetSnapshotVolumeName(th[t].src, th[t].dsnap[2]))
        /\ ~Found(db, th[t].dsnap) /\ th[t].dsnap \notin disk

\* C16: after a successful RefreshInstance that includes snapshots, the
\* target has no snapshot, as a row or as a volume, that the source does not
\* have.
InstanceRefreshDropsTargetOnly ==
    \A t \in Threads :
        (Returned(t) /\ th[t].op = "RefreshInstance" /\ th[t].sl # {} /\ th[t].res = "ok")
          => \A s \in SnapIds \ VolumeDBSnapshotsGet(db, th[t].src) :
                /\ ~Found(db, GetSnapshotVolumeName(th[t].inst, s))
                /\ GetSnapshotVolumeName(th[t].inst, s) \notin disk

\* C17: after a successful same-pool CreateInstanceFromCopy with snapshots,
\* the rows the call has inserted are the row of the target and one row for
\* each snapshot it found in the source, and it has called the Driver's
\* CreateVolumeFromCopy once.
CopyRowsAndOneDriverCall ==
    \A t \in Threads :
        (Returned(t) /\ th[t].op = "CreateInstanceFromCopy" /\ ~th[t].cross /\ th[t].snaps
           /\ th[t].res = "ok")
          => /\ th[t].made = VolAndSnaps(th[t].inst, th[t].sl)
             /\ Cardinality({n \in th[t].made : n[2] # 0}) = Cardinality(th[t].sl)
             /\ Cardinality({n \in th[t].made : n[2] = 0}) = 1
             /\ th[t].nCreate = 1

CopyRowsAndOneDriverCallWitness ==
    \E t \in Threads :
        /\ Returned(t) /\ th[t].op = "CreateInstanceFromCopy" /\ ~th[t].cross /\ th[t].snaps
        /\ th[t].res = "ok" /\ Cardinality(th[t].sl) >= 2
        /\ VolAndSnaps(th[t].inst, th[t].sl) \subseteq disk

\* C18: the cleanup goes to destroy a dataset kept under deleted/ only when no
\* clone depends on it, and no step takes a dataset that a clone depends on
\* out of the pool.
NoDestroyWithDependents ==
    [][/\ (zc'.pc = "destroy" /\ HasPrefixDeleted(zfs', zc'.path))
            => Dependents(zfs', zc'.path) = {}
       /\ \A f \in ZfsFs :
            /\ (zfs.fs[f] # "none" /\ zfs'.fs[f] = "none") => Dependents(zfs, <<f, "">>) = {}
            /\ \A k \in ZfsSnapNames :
                 (<<f, k>> \in zfs.snaps \ zfs'.snaps) => Dependents(zfs, <<f, k>>) = {}]_vars

\* A cleanup is at a deleted snapshot that has a clone left.
NoDestroyWithDependentsWitness ==
    /\ zc.pc = "clean" /\ ~zc.failed
    /\ HasPrefixDeleted(zfs, zc.path)
    /\ Dependents(zfs, zc.path) # {}

\* The datasets kept under deleted/ that no clone depends on.
CloneFreeDeleted(z) ==
    {p \in ZfsFs \X ({""} \cup ZfsSnapNames) :
        /\ z.fs[p[1]] = "deleted"
        /\ IsSnapshot(p) => p \in z.snaps
        /\ Dependents(z, p) = {}}

\* What is left for a cleanup to do: two steps for each dataset of the pool.
CleanupMeasure(z, c) ==
    2 * (Cardinality({f \in ZfsFs : z.fs[f] # "none"}) + Cardinality(z.snaps))
      + (IF c.pc = "clean" THEN 1 ELSE 0)

\* C19: while no destroy has failed, no dataset kept under deleted/ is left
\* without a clone depending on it once a cleanup has returned; and the
\* cleanup terminates: it can always take a step, and each step returns or
\* leaves less to do.
CascadeReclaims ==
    /\ []((zc.pc = "idle" /\ ~zc.failed) => CloneFreeDeleted(zfs) = {})
    /\ []((zc.pc # "idle") => ENABLED ZfsCleanupStep)
    /\ [][(zc.pc # "idle")
            => (zc'.pc = "idle" \/ CleanupMeasure(zfs', zc') < CleanupMeasure(zfs, zc))]_vars

\* One cleanup has destroyed a deleted snapshot, its filesystem and that
\* filesystem's deleted origin, and is at the origin's filesystem.
CascadeReclaimsWitness ==
    zc.pc = "destroy" /\ ~zc.failed /\ zc.n >= 3 /\ ~IsSnapshot(zc.path)

\* The sender of a custom volume is past the index header exchange: it is in
\* b.driver.MigrateVolume or has returned from it.
InPayload(r) ==
    r.op = "MigrateCustomVolume" /\ (r.pc \in {"mv_send", "mv_sent", "mv_end"} \/ r.fault \/ r.res = "ok")

\* C20: CreateCustomVolumeFromMigration goes on to the index header exchange
\* with refresh off unless refresh was asked for and the target volume is
\* there, and past the exchange the sender's refresh is the receiver's.
SameRefresh ==
    [][/\ (th["rcv"].pc = "CreateCustomVolumeFromMigration" /\ th'["rcv"].pc = "mhr_read")
            => th'["rcv"].refresh = (th["rcv"].refresh /\ VolName(th["rcv"].inst) \in disk)
       /\ InPayload(th'["snd"]) => th'["snd"].refresh = th'["rcv"].refresh]_vars

\* A refresh of a custom volume whose target is not there: both sides are in
\* the transfer of the volume with refresh off.
SameRefreshWitness ==
    /\ \E t \in Threads : th[t].op = "RefreshCustomVolume" /\ th[t].pc = "rcv_wait" /\ th[t].refresh
    /\ th["snd"].op = "MigrateCustomVolume" /\ th["snd"].pc = "mv_end" /\ ~th["snd"].refresh
    /\ th["rcv"].op = "CreateCustomVolumeFromMigration" /\ ~th["rcv"].refresh
    /\ th["rcv"].res = "ok"

\* The positions of the sender up to the end of migrationIndexHeaderSend, and
\* those from there to the end of b.driver.MigrateVolume.
SenderBefore == {"MigrateInstance", "MigrateCustomVolume", "mih_send", "mih_sent", "mih_resp"}

SenderPayload == {"mi_freeze", "mv_send", "mv_sent", "mv_end"}

\* The positions of the receiver up to the end of migrationIndexHeaderReceive,
\* and those from there to the end of b.driver.CreateVolumeFromMigration.
ReceiverBefore ==
    {"CreateInstanceFromMigration", "CreateCustomVolumeFromMigration", "mhr_read", "mhr_send", "mhr_sent"}

ReceiverPayload == {"cim_db", "cim_snap", "cim_drv", "ccm_db", "ccm_snap", "ccm_drv"}

TaskFailed == \E p \in Tasks : th[p].pc \in {"ret", "done"} /\ th[p].res = "err"

\* C21: the sender reads the reply only once its header frame was written,
\* closed and taken; the receiver writes its acknowledgement only once it has
\* read the header frame to its end; a side is past the exchange only once
\* the other side has written, respectively read, the acknowledgement; and
\* an exchange that was started completes unless a task returns an error.
HeaderExchangeOrder ==
    /\ [](th["snd"].pc = "mih_resp" => pipe.a2b # "hdr")
    /\ []((th["rcv"].pc \in {"mhr_send", "mhr_sent"} \/ pipe.b2a # "none") => pipe.a2b # "hdr")
    /\ [](th["snd"].pc \in SenderPayload
            => (th["rcv"].pc \notin (ReceiverBefore \ {"mhr_sent"}) /\ pipe.b2a = "none"))
    /\ [](th["rcv"].pc \in ReceiverPayload => th["snd"].pc \notin SenderBefore)
    /\ (th["snd"].pc = "mih_send")
          ~> ((th["snd"].pc \in SenderPayload /\ th["rcv"].pc \in ReceiverPayload) \/ TaskFailed)

\* Both sides are past the exchange and in their Driver's transfer.
HeaderExchangeOrderWitness ==
    /\ th["snd"].pc = "mv_sent" /\ th["rcv"].pc \in {"cim_drv", "ccm_drv"}
    /\ pipe.a2b = "data" /\ ~TaskFailed

\* The negotiation of the cross-pool operation of t finds no common type.
NoCommonType(r) == r.op # "idle" /\ r.cross /\ MatchTypes(r.offer, r.ours) = NoType

\* C22: while a cross-pool copy or refresh whose pools have no common migration
\* type runs, no task is started, no row is inserted and no volume is created
\* for the target, and the operation returns an error.
NoTypeNoTransfer ==
    [][\A t \in Threads : NoCommonType(th'[t]) =>
         /\ \A p \in Tasks : th'[p] = Idle
         /\ \A n \in RowNames : n[1] = th'[t].inst =>
               /\ Found(db', n) => Found(db, n)
               /\ n \in disk' => n \in disk
         /\ Returned(t)' => th'[t].res = "err"]_vars

\* A cross-pool copy has got to the negotiation and has returned its error.
NoTypeNoTransferWitness ==
    \E t \in Threads :
        /\ NoCommonType(th[t]) /\ Returned(t) /\ th[t].res = "err"
        /\ th[t].op = "CreateCustomVolumeFromCopy" /\ Found(db, VolName(th[t].src))
        /\ ~th[t].had /\ ~Found(db, VolName(th[t].inst))

\* The target volume of receiver p is inconsistent: it is on storage without
\* a row, or has a row without being on storage.
TargetInconsistent(p) ==
    LET n == VolName(th[p].inst)
    IN Found(db, n) # (n \in disk)

\* The receiver has not yet checked the database against the storage.
BeforeCheck(r) ==
    \/ r.op = "CreateInstanceFromMigration"
         /\ r.pc \in {"CreateInstanceFromMigration", "mhr_read", "mhr_send", "mhr_sent", "cim_db"}
    \/ r.op = "CreateCustomVolumeFromMigration" /\ r.pc = "CreateCustomVolumeFromMigration"

\* C23: a step of CreateInstanceFromMigration or CreateCustomVolumeFromMigration
\* that has not yet checked the database against the storage changes no row
\* and no volume when the target is inconsistent, and it does not get past
\* the check: it stays before it or returns an error with nothing to undo.
InconsistentTargetUntouched ==
    [][(BeforeCheck(th["rcv"]) /\ th'["rcv"] # th["rcv"] /\ TargetInconsistent("rcv"))
         => /\ db' = db /\ disk' = disk
            /\ \/ BeforeCheck(th'["rcv"])
               \/ th'["rcv"].pc = "ret" /\ th'["rcv"].res = "err" /\ th'["rcv"].rev = <<>>]_vars

\* Both receivers' case: the receiver has returned its error on a target that
\* is on storage without a row.
InconsistentTargetUntouchedWitness ==
    /\ th["rcv"].op \in {"CreateInstanceFromMigration", "CreateCustomVolumeFromMigration"}
    /\ Returned("rcv") /\ th["rcv"].res = "err" /\ ~th["rcv"].fault
    /\ VolName(th["rcv"].inst) \in disk /\ ~Found(db, VolName(th["rcv"].inst))

\* C24: the calls of the Driver's RestoreVolume in one restore are one call,
\* or a call that returned ErrDeleteSnapshots and one more call; the second
\* call comes when every snapshot the error named was deleted, and a restore
\* whose last call failed returns an error.
RestoreRetriedOnce ==
    \A t \in Threads :
        /\ th[t].restores \in {<<>>, <<"ok">>, <<"err">>, <<"snaps">>, <<"snaps", "ok">>,
                                <<"snaps", "err">>, <<"snaps", "snaps">>}
        /\ th[t].pc \in {"rs_retry", "rcr_retry"} => (th[t].todo = <<>> /\ th[t].restores = <<"snaps">>)
        /\ (Returned(t) /\ th[t].restores # <<>> /\ th[t].res = "ok")
              => th[t].restores \in {<<"ok">>, <<"snaps", "ok">>}

\* A restore of the custom volume has deleted the newer snapshots and its
\* second call has failed.
RestoreRetriedOnceWitness ==
    \E t \in Threads :
        /\ th[t].op = "RestoreCustomVolume" /\ Returned(t) /\ th[t].res = "err"
        /\ th[t].restores = <<"snaps", "err">>
        /\ NewerSnaps(disk, th[t].inst, th[t].snap) = {}

\* No call of DeleteImage by another caller runs beside the operation of t.
NoDeleteImageBeside(t) == \A u \in Threads \ {t} : th[u].op # "DeleteImage"

\* C25: when SetVolumeQuota on the cached image volume returns
\* ErrCannotBeShrunk, EnsureImage does not return that error: it calls
\* DeleteImage, after which neither the row nor the volume of the image is
\* left, creates both again, and returns success unless a call of the rebuild
\* fails.
ShrunkImageRebuilt ==
    /\ [](\A t \in Threads :
            /\ (th[t].quota = "shrunk" /\ th[t].pc \in {"ret", "done"} /\ th[t].res = "err")
                  => (th[t].fault \/ ~NoDeleteImageBeside(t))
            /\ (th[t].quota = "shrunk" /\ th[t].pc = "ei_resized" /\ th[t].cret = "ok")
                  => (~Found(db, VolName(th[t].inst)) /\ VolName(th[t].inst) \notin disk)
            /\ (th[t].quota = "shrunk" /\ Returned(t) /\ th[t].res = "ok" /\ NoDeleteImageBeside(t))
                  => /\ Found(db, VolName(th[t].inst))
                     /\ db[VolName(th[t].inst)].own = t
                     /\ db[VolName(th[t].inst)].cfg = Current
                     /\ VolName(th[t].inst) \in disk
                     /\ th[t].nCreate = 1)
    /\ [][\A t \in Threads :
            (th[t].quota = "none" /\ th'[t].quota = "shrunk")
                => (th'[t].pc = "DeleteImage" /\ th'[t].stk = <<"ei_resized">>)]_vars

\* An EnsureImage whose SetVolumeQuota could not shrink the volume has rebuilt
\* the image and returned success.
ShrunkImageRebuiltWitness ==
    \E t \in Threads :
        /\ th[t].op = "EnsureImage" /\ Returned(t) /\ th[t].res = "ok"
        /\ th[t].quota = "shrunk" /\ th[t].nCreate = 1
        /\ db[VolName("img")].own = t /\ VolName("img") \in disk

\* The row of the image records a block mode or a block filesystem that is not
\* the pool's current one.
StaleImage(d) == Found(d, VolName("img")) /\ d[VolName("img")].cfg = BlockChanged

\* C26: an EnsureImage that finds the cached image volume recorded with another
\* block mode or block filesystem than the pool's current one calls
\* DeleteImage, after which neither the row nor the volume is left, and goes on
\* to create the image; no EnsureImage has returned success while the row of
\* such a volume is in place, and at its successful return, still under its
\* lock, the image has its row and its volume.
StaleImageRegenerated ==
    /\ [](\A t \in Threads :
            /\ (th[t].op = "EnsureImage" /\ th[t].pc \in {"ret", "done"} /\ th[t].res = "ok")
                  => ~StaleImage(db)
            /\ (th[t].pc = "ei_regen" /\ th[t].cret = "ok")
                  => (~Found(db, VolName(th[t].inst)) /\ VolName(th[t].inst) \notin disk)
            /\ (th[t].op = "EnsureImage" /\ th[t].pc = "ret" /\ th[t].res = "ok"
                  /\ th[t].defers # <<>> /\ NoDeleteImageBeside(t))
                  => /\ Found(db, VolName(th[t].inst))
                     /\ VolName(th[t].inst) \in disk)
    /\ [][\A t \in Threads :
            /\ (th[t].pc = "ei_get" /\ th'[t] # th[t] /\ StaleImage(db))
                  => (th'[t].pc = "DeleteImage" /\ th'[t].stk = <<"ei_regen">>)
            /\ (th[t].pc = "ei_regen" /\ th'[t] # th[t] /\ th[t].cret = "ok")
                  => (th'[t].pc = "ei_has" /\ ~th'[t].imgDBVol)]_vars

\* An EnsureImage has replaced an image volume of another block mode by one it
\* created.
StaleImageRegeneratedWitness ==
    \E t \in Threads :
        /\ th[t].op = "EnsureImage" /\ Returned(t) /\ th[t].res = "ok"
        /\ th[t].nCreate = 1 /\ th[t].quota = "none" /\ th[t].had
        /\ db[VolName("img")].own = t /\ db[VolName("img")].cfg = Current
        /\ VolName("img") \in disk
        /\ \A u \in Threads \ {t} : th[u].op = "idle"

\* C27: when Mount returns, the pool is in unavailablePools if and only if
\* Mount returns an error; when Delete of the pool returns successfully, the
\* pool is not in unavailablePools.
UnavailableIffMountFailed ==
    [][\A t \in Threads :
         (th[t].pc # "done" /\ th'[t].pc = "done")
            => /\ th[t].op = "Mount" => (~IsAvailable(pool') <=> th'[t].res = "err")
               /\ (th[t].op = "Delete" /\ th'[t].res = "ok") => IsAvailable(pool')]_vars

\* The snapshot creation of t is at its locking.Lock and cannot take the key.
WaitsForLock(t) ==
    \/ th[t].pc = "cis_lock" /\ ~ENABLED CreateInstanceSnapshot_Lock(t)
    \/ th[t].pc = "ccs_lock" /\ ~ENABLED CreateCustomVolumeSnapshot_Lock(t)

\* The operation of u holds an advisory lock.
HoldsLock(u) == \E k \in LockKeys : locks[k] = u

\* Of two snapshot creations, one waits for the lock the other holds.
WaitsFor(t, u) == t # u /\ WaitsForLock(t) /\ HoldsLock(u)

AtLock(t) == th[t].pc \in {"cis_lock", "ccs_lock", "EnsureImage", "DeleteImage"}

\* The locking.Lock of t can return.
LockReturns(t) ==
    \/ ENABLED CreateInstanceSnapshot_Lock(t)
    \/ ENABLED CreateCustomVolumeSnapshot_Lock(t)
    \/ ENABLED EnsureImage_Lock(t)
    \/ ENABLED DeleteImage_Lock(t)

\* The key of the locking.Lock that t is at.
LockKeyAt(t) ==
    CASE th[t].pc = "cis_lock" ->
           OperationLockName("CreateInstanceSnapshot", NameInProject(th[t].src))
      [] th[t].pc = "ccs_lock" ->
           OperationLockName("CreateCustomVolumeSnapshot", NameInProject(th[t].src))
      [] th[t].pc = "EnsureImage" -> OperationLockName("EnsureImage", th[t].inst)
      [] OTHER -> OperationLockName("DeleteImage", th[t].inst)

\* The operation of t waits for a key that is held, and its caller has given up.
CancelledWaiter(t) == AtLock(t) /\ Held(locks, LockKeyAt(t)) /\ th[t].cancelled

\* C29: when the caller of an operation that waits for an advisory lock
\* cancels its context or its deadline passes, the locking.Lock of the
\* operation returns although the key is still held, and the operation then
\* returns an error without its Driver call.
CancelledWaitEnds ==
    /\ [](\A t \in Threads : CancelledWaiter(t) => LockReturns(t))
    /\ [][\A t \in Threads :
            (CancelledWaiter(t) /\ th'[t].pc # th[t].pc)
                => (th'[t].pc = "ret" /\ th'[t].res = "err")]_vars

\* C30: the recovery scan skips, without an error and without reporting it, an
\* instance volume that has its instance record and its volume record; it
\* fails on an instance volume that has exactly one of the two; it reports only
\* volumes that have neither and whose backup file was checked.
ScanSkipsKnown ==
    /\ [][\A t \in Threads :
            (th[t].pc = "duiv" /\ th'[t] # th[t])
               => LET v == th[t].cur
                      inst == HasInstanceRecord(th[t], v)
                      vol == Found(db, v)
                  IN /\ (inst /\ vol)
                          => (th'[t].pc = "luv_next" /\ th'[t].unknown = th[t].unknown)
                     /\ (inst # vol)
                          => (th'[t].pc = "ret" /\ th'[t].res = "err" /\ th'[t].unknown = {})
                     /\ (~inst /\ ~vol /\ v \in th[t].valid)
                          => (th'[t].pc = "luv_next" /\ th'[t].unknown = th[t].unknown \cup {v})
                     /\ (~inst /\ ~vol /\ v \notin th[t].valid)
                          => (th'[t].pc = "ret" /\ th'[t].res = "err")]_vars
    /\ [](\A t \in Threads :
            (th[t].op = "ListUnknownVolumes" /\ Returned(t) /\ th[t].res = "ok")
               => {v \in th[t].unknown : IsInstanceVolume(v)}
                     = {v \in disk : /\ IsInstanceVolume(v) /\ ~HasInstanceRecord(th[t], v)
                                       /\ ~Found(db, v)})
    /\ [](\A t \in Threads :
            (th[t].op = "ListUnknownVolumes" /\ Returned(t) /\ th[t].res = "ok")
               => \A v \in disk : IsInstanceVolume(v) => (HasInstanceRecord(th[t], v) <=> Found(db, v)))

\* A scan has returned one unknown instance volume and has skipped an instance
\* volume that has both records.
ScanSkipsKnownWitness ==
    \E t \in Threads :
        /\ th[t].op = "ListUnknownVolumes" /\ Returned(t) /\ th[t].res = "ok"
        /\ VolName("c2") \in th[t].unknown
        /\ HasInstanceRecord(th[t], VolName("c1")) /\ Found(db, VolName("c1"))
        /\ VolName("c1") \notin th[t].unknown

\* The check of t has returned; deleteMissing was dm.
Checked(t, dm) ==
    th[t].op = "CheckInstanceBackupFileSnapshots" /\ Returned(t) /\ th[t].deleteMissing = dm

\* C31: without deleteMissing, a check that has succeeded has found on the
\* storage device the very snapshots the backup config names, a check of two
\* sets that differ has returned an error, and no step of the check changes
\* the storage device.
CheckOnlyCompares ==
    /\ [](\A t \in Threads :
            Checked(t, FALSE)
               => /\ th[t].res = "ok" => Names(th[t].backup) = DriverSnapshots(disk, th[t].inst)
                  /\ Names(th[t].backup) # DriverSnapshots(disk, th[t].inst) => th[t].res = "err")
    /\ [][(\E t \in Threads : th[t].op = "CheckInstanceBackupFileSnapshots" /\ ~th[t].deleteMissing)
             => disk' = disk]_vars

\* Both outcomes: a check without deleteMissing has succeeded on equal sets.
CheckOnlyComparesWitness ==
    \E t \in Threads :
        /\ Checked(t, FALSE) /\ th[t].res = "ok"
        /\ Names(th[t].backup) = DriverSnapshots(disk, th[t].inst)
        /\ Len(th[t].backup) = MaxSnaps

\* C32: with deleteMissing, the check deletes only snapshots the Driver
\* reported and the backup config does not name; when it has succeeded, the
\* snapshots left on the storage device are the reported ones the backup
\* config names, and it has returned the snapshots of the backup config that
\* the Driver reported, in the order of the backup config.
CheckDeletesMissing ==
    /\ [](\A t \in Threads :
            (Checked(t, TRUE) /\ th[t].res = "ok")
               => /\ DriverSnapshots(disk, th[t].inst) = th[t].sl \cap Names(th[t].backup)
                  /\ th[t].existing = OnStorageDevice(th[t].backup, th[t].sl)
                  /\ Names(th[t].existing) = DriverSnapshots(disk, th[t].inst))
    /\ [][\A t \in Threads :
            (th[t].op = "CheckInstanceBackupFileSnapshots" /\ th[t].deleteMissing /\ disk' # disk)
               => \E x \in th[t].sl \ Names(th[t].backup) :
                    /\ GetSnapshotVolumeName(th[t].inst, x) \in disk
                    /\ disk' = disk \ {GetSnapshotVolumeName(th[t].inst, x)}]_vars

\* A check with deleteMissing has deleted a snapshot, has passed over a name
\* that is not on the storage device and has returned the others.
CheckDeletesMissingWitness ==
    \E t \in Threads :
        /\ Checked(t, TRUE) /\ th[t].res = "ok"
        /\ th[t].sl \ Names(th[t].backup) # {}
        /\ Names(th[t].backup) \ th[t].sl # {}
        /\ th[t].existing # <<>> /\ Len(th[t].existing) < Len(th[t].backup)

\* C33: a RestoreCustomVolume that has returned success has emitted one
\* StorageVolumeRestored event, whether its first or its second RestoreVolume
\* succeeded, and one that has returned an error has emitted none.
RestoredEventOnce ==
    \A t \in Threads :
        (th[t].op = "RestoreCustomVolume" /\ Returned(t))
            => th[t].events = (IF th[t].res = "ok" THEN 1 ELSE 0)

\* C34: when RefreshCustomVolume has returned an error, the snapshots of the
\* target, rows and physical snapshots, are those it had when the operation
\* was called.
RefreshFailureKeepsSnapshots ==
    \A t \in Threads :
        (th[t].op = "RefreshCustomVolume" /\ Returned(t) /\ th[t].res = "err")
            => TargetSnapshots(db, disk, th[t].inst) = th[t].before

\* The deferred Unfreeze() of thread t is still to run.
UnfreezePending(t) == \E i \in 1..Len(th[t].defers) : th[t].defers[i].k = "unfreeze"

CopyFailureKeepsRows ==
    \A t \in Threads :
        (th[t].op = "CreateInstanceFromCopy" /\ Returned(t) /\ th[t].res = "err" /\ th[t].had)
            => Found(db, VolName(th[t].inst))

\* An EnsureImage and a DeleteImage of one image have both returned, the
\* EnsureImage with success and the DeleteImage without a failed Driver call.
EnsureAndDeleteReturned ==
    /\ \A t \in Threads : Returned(t) /\ th[t].inst = "img" /\ ~th[t].fault
    /\ \E t \in Threads : th[t].op = "EnsureImage" /\ th[t].res = "ok"
    /\ \E t \in Threads : th[t].op = "DeleteImage"

\* C37: once an EnsureImage and a DeleteImage of one image have both
\* returned, the image has its row and its physical volume, or neither; and
\* at the step at which an EnsureImage returns success beside a DeleteImage,
\* the row and the volume of the image are there.
EnsureDeleteConsistent ==
    /\ [](EnsureAndDeleteReturned => (Found(db, VolName("img")) <=> VolName("img") \in disk))
    /\ [][\A t \in Threads :
            (th[t].op = "EnsureImage" /\ th[t].pc # "ret" /\ th'[t].pc = "ret" /\ th'[t].res = "ok"
               /\ \E u \in Threads : th[u].op = "DeleteImage")
              => Found(db', VolName("img")) /\ VolName("img") \in disk']_vars

\* The operation of t is in locking.Lock and the key is held.
LockWaits(t) == AtLock(t) /\ Held(locks, LockKeyAt(t))

\* C38: no cyclic wait on the advisory locks among EnsureImage and
\* DeleteImage calls, of one image or of two: the holder of the key an
\* operation waits for is not itself waiting for a key, and is not the
\* waiting operation.
NoCyclicLockWait ==
    \A t \in Threads, u \in Threads :
        (LockWaits(t) /\ locks[LockKeyAt(t)] = u) => ~LockWaits(u)

\* An EnsureImage that holds its key waits, in the DeleteImage it calls, for
\* the DeleteImage key that a DeleteImage of the same image holds.
NoCyclicLockWaitWitness ==
    \E t \in Threads, u \in Threads :
        /\ t # u /\ LockWaits(t) /\ locks[LockKeyAt(t)] = u
        /\ th[t].op = "EnsureImage" /\ th[t].stk # <<>>
        /\ locks[OperationLockName("EnsureImage", th[t].inst)] = t
        /\ th[u].op = "DeleteImage"

\* CreateInstanceFromMigration of task t, not a refresh and with snapshots,
\* returns an error after the Driver has received the volume: it has inserted
\* all its rows, no Driver call of it has failed, nor any call of its rollback.
FailsAfterReceive(t) ==
    /\ th[t].op = "CreateInstanceFromMigration" /\ th[t].pc = "ret" /\ th[t].res = "err"
    /\ ~th[t].refresh /\ th[t].sl # {}
    /\ th[t].made = VolAndSnaps(th[t].inst, th[t].sl)
    /\ ~th[t].physFail /\ ~th[t].fault

\* C39: when a CreateInstanceFromMigration that is not a refresh, with
\* snapshots, returns an error after the Driver's CreateVolumeFromMigration
\* succeeded, it leaves none of its rows and no physical volume of the target
\* without its row.
MigrationFailureRemovesVolume ==
    [][\A t \in Tasks :
         (FailsAfterReceive(t) /\ th'[t].pc = "done")
           => \A n \in VolAndSnaps(th[t].inst, th[t].sl) : ~Found(db', n) /\ n \notin disk']_vars

\* C40: the header's lists are read at index i only when they hold more than
\* i elements: no receiver makes an out-of-range access, whatever the lengths
\* of the lists of the header it received.
HeaderIndexInRange == \A t \in Threads : ~th[t].oob

====
